---- MODULE Spec2Model ----
(***************************************************************************)
(* Order fulfilment and payment settlement of the orders service.          *)
(*                                                                         *)
(* The persistent store is PostgreSQL at READ COMMITTED: a statement sees  *)
(* the rows committed before it starts plus the transaction's own writes,  *)
(* SELECT ... FOR UPDATE and UPDATE take a row lock that is held until the *)
(* transaction commits or rolls back, and a plain SELECT never blocks.     *)
(* Every request handler owns one AsyncSession (expire_on_commit=False):   *)
(* objects loaded into its identity map keep their attribute values until  *)
(* they are refreshed explicitly.                                          *)
(*                                                                         *)
(* A product row carries updated_at, which is part of the history snapshot *)
(* (ProductRead). It is kept as a per-row logical time: 0 when the row is  *)
(* inserted, one more after every UPDATE of the row.                       *)
(***************************************************************************)
EXTENDS Integers, Sequences, FiniteSets, TLC

\* ---------------------------------------------------------------- bounds
NumProcs  == 2      \* concurrent request handlers
MaxCalls  == 2      \* requests started in one behaviour
MaxCreate == 1      \* products created in one behaviour
HistCalls == 4      \* requests started in one behaviour of SpecHistory

Procs == 1..NumProcs

\* ------------------------------------------------------ input enumerations
InitStock1 == {3, 5}                 \* initial quantity of product 1
InitStock2 == {2}                    \* initial quantity of product 2
ItemQtys   == {1, 3}                 \* quantities of the order items
CatalogIds == {1}                    \* catalog items that exist

\* PATCH /products/{id}: <<product id, quantity>>; product 3 exists once created
UpdateInputs == {<<1, 4>>, <<1, -1>>, <<3, 4>>}
\* POST /products: <<catalog item id, quantity, user_id given>>; the route
\* always passes the current user, a direct caller of the service may not
CreateInputs == {<<1, 2, TRUE>>, <<1, 2, FALSE>>, <<1, -1, TRUE>>, <<2, 2, TRUE>>}

\* SpecHistory, PATCH /products/{id}: <<product id, quantity>>
HistUpdateInputs == {<<1, 6>>, <<1, 3>>, <<1, -1>>}
\* SpecHistory, PATCH /orders/{id}/payment-status
HistSettleInputs == {<<2, "paid">>}

PaymentStatus == {"unpaid", "paid", "canceled"}
\* PATCH /orders/{id}/payment-status: <<order id, payment_status>>
SettleInputs == {<<1, "paid">>, <<2, "canceled">>}

NoUpdate == [product |-> 0, field |-> "none", value |-> 0, insert |-> FALSE]
\* SpecOrders, POST /orders: the items of the payload; product 9 does not exist
ItemData(P, q) == [product_id |-> P, quantity |-> q]
CreateOrderInputs ==
    {<<ItemData(1, 2), ItemData(1, 1)>>, <<ItemData(1, 1), ItemData(9, 1)>>, <<>>}

\* SpecOrders, PATCH /orders/{id}; items 1 and 2 belong to order 1, item 3 to
\* order 2, no item has id 99, no order has id 9
ItemUpdate(i, q) == [item_id |-> i, quantity |-> q]
OrderUpdate(o, del, upds, new) ==
    [order |-> o, del |-> del, upds |-> upds, new |-> new]
UpdateOrderInputs ==
    {OrderUpdate(1, <<3, 99>>, <<>>, <<>>),
     OrderUpdate(1, <<1>>, <<ItemUpdate(2, 5)>>, <<ItemData(1, 1)>>),
     OrderUpdate(1, <<1>>, <<ItemUpdate(2, 5), ItemUpdate(3, 4)>>, <<>>),
     OrderUpdate(1, <<1>>, <<ItemUpdate(2, 5)>>, <<ItemData(1, 1), ItemData(9, 1)>>),
     OrderUpdate(9, <<>>, <<>>, <<>>),
     OrderUpdate(1, <<>>, <<ItemUpdate(2, 0)>>, <<>>)}

\* SpecItems, POST /orders: a valid payload, an item with quantity 0, an item
\* with a negative quantity
ItemsCreateInputs ==
    {<<ItemData(1, 2)>>, <<ItemData(1, 0)>>, <<ItemData(2, 1), ItemData(1, -1)>>}
\* SpecItems, PATCH /orders/1: item 1 deleted and updated in one call; item 2
\* updated and an item added; an update addressed to item 4, the id the added
\* item of the same call is given when no item was added before; an update
\* and a new item with quantity 0
ItemsUpdateInputs ==
    {OrderUpdate(1, <<1>>, <<ItemUpdate(1, 4)>>, <<>>),
     OrderUpdate(1, <<>>, <<ItemUpdate(2, 4)>>, <<ItemData(2, 1)>>),
     OrderUpdate(1, <<>>, <<ItemUpdate(4, 2)>>, <<ItemData(2, 1)>>),
     OrderUpdate(1, <<>>, <<ItemUpdate(2, 0)>>, <<>>),
     OrderUpdate(1, <<>>, <<>>, <<ItemData(2, 0)>>)}

\* SpecOrders, PATCH /products/{id}: <<product id, sell_price>>
PriceInputs == {<<1, 2>>}

\* SpecStatus, PATCH /orders/{id}/payment-status; refunded is no PaymentStatus
StatusInputs == {<<1, "paid">>, <<1, "unpaid">>, <<1, "canceled">>,
                 <<1, "refunded">>}
StatusStock1 == {5, 7}

\* SpecTwoOrders, PATCH /orders/{id}/payment-status
TwoOrdersInputs == {<<1, "paid">>, <<2, "paid">>}
\* SpecTwoOrders: order 1 takes product 1 only; order 2 takes product 2, or
\* product 1 as well
TwoOrdersItems1 == {<<[id |-> 1, product_id |-> 1, quantity |-> 3, price |-> 1]>>,
                    <<[id |-> 1, product_id |-> 1, quantity |-> 3, price |-> 1],
                      [id |-> 2, product_id |-> 1, quantity |-> 3, price |-> 1]>>}
TwoOrdersItems2 == {<<[id |-> 3, product_id |-> 2, quantity |-> 1, price |-> 1]>>,
                    <<[id |-> 3, product_id |-> 2, quantity |-> 3, price |-> 1]>>,
                    <<[id |-> 3, product_id |-> 1, quantity |-> 3, price |-> 1]>>}

\* SpecLocks: orders 1 and 2 name products 1 and 2 in opposite item order
LocksItems1 == {<<[id |-> 1, product_id |-> 1, quantity |-> 3, price |-> 1],
                  [id |-> 2, product_id |-> 2, quantity |-> 1, price |-> 1]>>}
LocksItems2 == {<<[id |-> 3, product_id |-> 2, quantity |-> 1, price |-> 1],
                  [id |-> 4, product_id |-> 1, quantity |-> 3, price |-> 1]>>}

\* SpecOrders, GET /orders/{id}
GetOrderInputs == {1, 9}
\* SpecOrders, PATCH /orders/{id}/payment-status
OrdersSettleInputs == {<<1, "paid">>, <<9, "paid">>}

NoUser == 0                          \* user_id = None
NoReq == [op |-> "none", order |-> 0, status |-> "none",
          product |-> 0, field |-> "none", value |-> 0, catalog |-> 0,
          user |-> NoUser, del |-> <<>>, upds |-> <<>>, new |-> <<>>]
NoWrote == [products |-> <<>>, rows |-> <<>>, status |-> "none"]
NoLoad == [items |-> <<>>, status |-> "none", added |-> <<>>]

VARIABLES
    products,      \* committed product rows, indexed by id
    history,       \* committed product_history rows, in insertion order
    orders,        \* committed order rows with their items, indexed by id
    orderLock,     \* order id -> handler holding the row lock, 0 if free
    productLock,   \* product id -> handler holding the row lock, 0 if free
    pc,            \* handler -> position in its request
    req,           \* handler -> the request it serves
    loaded,        \* handler -> order (items, status) in its identity map
    view,          \* handler -> products in its identity map
    idx,           \* handler -> index of the item being decremented
    upd,           \* handler -> arguments of the running update_product
    dirty,         \* handler -> the flushed UPDATE is awaiting commit
    result,        \* handler -> status code of its last finished request
    errProduct,    \* handler -> product named by its last 400 error
    started,       \* number of requests started so far
    created,       \* number of products created so far
    initView,      \* handler -> product rows read when the order was loaded
    wrote,         \* handler -> what its current request has committed
    interfered,    \* handler -> another handler committed during its request
    seq,           \* last value drawn from the order and order_item id sequences
    auth           \* revoked and expired tokens, active users, bearer per handler

vars == <<products, history, orders, orderLock, productLock, pc, req, loaded,
          view, idx, upd, dirty, result, errProduct, started, created,
          initView, wrote, interfered, seq, auth>>

\* ------------------------------------------------------------ pure helpers
Min(S) == CHOOSE x \in S : \A y \in S : x <= y

UserOf(p) == p

\* ------------------------------------------------------------------ tokens
\* A token is <<kind, user, n>>: an access token (audience fastapi-users:auth)
\* or a refresh token (audience fastapi-users:refresh) written for the user;
\* NoToken is a request without Authorization header or cookie
AccessAudience == "fastapi-users:auth"
RefreshAudience == "fastapi-users:refresh"
NoToken == <<"none", 0, 0>>
AccessTokenOf(p) == <<AccessAudience, UserOf(p), 1>>
TokenAudience(t) == t[1]
TokenUser(t) == t[2]

\* SpecAuth: two access tokens and a refresh token of user 1, an access token
\* of user 2, and no token
Tokens == {<<AccessAudience, 1, 1>>, <<AccessAudience, 1, 2>>,
           <<RefreshAudience, 1, 1>>, <<AccessAudience, 2, 1>>, NoToken}
\* SpecAuth: the token whose lifetime ends within the behaviour
ExpiringTokens == {<<AccessAudience, 1, 2>>}
\* SpecAuth: user 1 is active, user 2 is not (is_active false)
ActiveUsers == {1}
\* SpecAuth: what the client served by handler p sends as its bearer token
BearerChoices(p) == {t \in Tokens : TokenUser(t) \in {UserOf(p), 0}}

\* JWTStrategy.read_token as configured by get_jwt_strategy and
\* get_refresh_strategy: the token's user when the token decodes for the
\* strategy's audience and its lifetime has not ended, else no user (0)
JWTReadToken(audience, t, a) ==
    IF t # NoToken /\ TokenAudience(t) = audience /\ t \notin a.expired
    THEN TokenUser(t) ELSE 0

\* A strategy that never looks at the revoked tokens
ReadToken_NoBlacklist(audience, t, a) == JWTReadToken(audience, t, a)

\* BlacklistJWTStrategy.read_token: no user for a token that has a
\* RevokedToken row, else what JWTStrategy.read_token returns
ReadToken(audience, t, a) ==
    IF t \in a.revoked THEN 0 ELSE JWTReadToken(audience, t, a)

\* A logout that revokes every token of the token's user
DestroyToken_AllOfUser(a, t) ==
    [a EXCEPT !.revoked = @ \cup {x \in Tokens : TokenUser(x) = TokenUser(t)}]

\* BlacklistJWTStrategy.destroy_token: a RevokedToken row for the token,
\* unless there is one
DestroyToken(a, t) == [a EXCEPT !.revoked = @ \cup {t}]

\* A dependency that accepts a request without user
CurrentUser_Optional(audience, t, a) == 1

\* fastapi_users.current_user(active=True): the user read from the token when
\* there is one and it is active, else no user (the 401)
CurrentUser(audience, t, a) ==
    LET u == ReadToken(audience, t, a)
    IN  IF u \in a.active THEN u ELSE 0

\* ProductCreate: quantity >= 0
ProductCreateValid(q) == q >= 0

\* ProductUpdate without the ge=0 constraint
ProductUpdateValid_Unbounded(field, value) == TRUE

\* ProductUpdate: every given field >= 0
ProductUpdateValid(field, value) == value >= 0

\* BaseFields.updated_at of a row that an UPDATE statement writes
TouchUpdatedAt(row) == [row EXCEPT !.updated_at = @ + 1]

\* A new Product row; BaseFields.updated_at at INSERT
NewProduct(q, price) == [quantity |-> q, sell_price |-> price, updated_at |-> 0]

\* ProductService._create_product_snapshot: ProductRead.model_dump of the row
CreateProductSnapshot(P, row) ==
    [id |-> P, quantity |-> row.quantity, sell_price |-> row.sell_price,
     updated_at |-> row.updated_at]

\* History rows of product P, oldest first
HistoryOf(hist, P) == SelectSeq(hist, LAMBDA h : h.product_id = P)

\* ProductService._save_history, the decision: FALSE when the action is
\* updated and the most recent history row of the product, as the SELECT of
\* the session sees it, carries the same snapshot
SaveHistoryWrites(hist, P, row, action) ==
    LET mine == HistoryOf(hist, P)
    IN  ~ /\ action = "updated"
          /\ mine # <<>>
          /\ mine[Len(mine)].snapshot = CreateProductSnapshot(P, row)

\* A record that drops the acting user
HistoryRecord_Anonymous(P, row, action, uid) ==
    [product_id |-> P, user_id |-> NoUser, action |-> action,
     snapshot |-> CreateProductSnapshot(P, row)]

\* A record filed under product 2 whatever product was updated
HistoryRecord_Product2(P, row, action, uid) ==
    [product_id |-> 2, user_id |-> uid, action |-> action,
     snapshot |-> CreateProductSnapshot(P, row)]

\* ProductService._save_history, the ProductHistory record it builds
HistoryRecord(P, row, action, uid) ==
    [product_id |-> P, user_id |-> uid, action |-> action,
     snapshot |-> CreateProductSnapshot(P, row)]

\* The record is built but never added to the session
InsertHistory_Lost(hist, rec) == hist

\* A commit that overwrites the most recent row instead of adding one
InsertHistory_Overwrite(hist, rec) ==
    IF hist = <<>> THEN <<rec>> ELSE [hist EXCEPT ![Len(hist)] = rec]

\* session.add(history_record) .. commit: the INSERT into product_history
InsertHistory(hist, rec) == Append(hist, rec)

\* A stock check that looks at the first item only
ValidateStockAvailability_FirstOnly(items, v) ==
    IF Len(items) > 0 /\ items[1].quantity > v[items[1].product_id].quantity
    THEN 1 ELSE 0

\* A stock check that also rejects an item equal to the stock
ValidateStockAvailability_Strict(items, v) ==
    LET short == {i \in 1..Len(items) :
                    items[i].quantity >= v[items[i].product_id].quantity}
    IN  IF short = {} THEN 0 ELSE Min(short)

\* OrderService._validate_stock_availability: index of the first item whose
\* quantity exceeds the loaded product's quantity, 0 when every item passes
ValidateStockAvailability(items, v) ==
    LET short == {i \in 1..Len(items) :
                    items[i].quantity > v[items[i].product_id].quantity}
    IN  IF short = {} THEN 0 ELSE Min(short)

\* A decrement that takes one unit whatever the item's quantity
ReducedQuantity_OneUnit(item, v) == v[item.product_id].quantity - 1

\* OrderService._reduce_product_quantities: the quantity sent to update_product
ReducedQuantity(item, v) == v[item.product_id].quantity - item.quantity

\* The order is selected without with_for_update
ForUpdateGranted_NoLock(lock, o, p) == TRUE

\* A lock on the whole order table instead of the selected row
ForUpdateGranted_TableLock(lock, o, p) == \A k \in DOMAIN lock : lock[k] \in {0, p}

\* _get_order_with_lock, with_for_update: the SELECT returns once no other
\* transaction holds the order's row lock
ForUpdateGranted(lock, o, p) == lock[o] \in {0, p}

\* A payload whose payment_status is any string
OrderPaymentUpdateValid_Any(st) == TRUE

\* OrderPaymentUpdate: payment_status is a member of the PaymentStatus enum
OrderPaymentUpdateValid(st) == st \in PaymentStatus

\* An order row inserted as paid
DefaultPaymentStatus_Paid == "paid"

\* Order.payment_status, default=PaymentStatus.UNPAID.value
DefaultPaymentStatus == "unpaid"

\* OrderRead: the order as a response carries it
OrderRead(ords, o) ==
    [id |-> o, user_id |-> ords[o].user_id,
     payment_status |-> ords[o].payment_status, items |-> ords[o].items]

\* A quantity constraint of ge=0
OrderItemsValid_NonNegative(items) ==
    \A i \in 1..Len(items) : items[i].quantity >= 0

\* OrderItemCreate / OrderCreate: at least one item, every quantity >= 1
OrderItemsValid(items) == \A i \in 1..Len(items) : items[i].quantity >= 1

OrderCreateValid(items) == Len(items) >= 1 /\ OrderItemsValid(items)

\* OrderUpdate: OrderItemUpdate.quantity >= 1, OrderItemCreate.quantity >= 1
OrderUpdateValid(upds, new) == OrderItemsValid(upds) /\ OrderItemsValid(new)

\* An item that takes no price from the product
ItemPrice_Unset(product) == 0

\* price=float(product.sell_price): a Numeric(10, 2) value read as a float and
\* stored as Numeric(10, 2) again is the same amount
ItemPrice(product) == product.sell_price

\* OrderService._build_items_map: the ids of the items loaded with the order
BuildItemsMap(items) == {items[i].id : i \in 1..Len(items)}

\* A delete that does not look the id up in the order's own items
DeleteOrderItems_AnyOrder(itemsById, ids) == {ids[i] : i \in 1..Len(ids)}

\* OrderService._delete_order_items: the loaded items that session.delete marks
DeleteOrderItems(itemsById, ids) ==
    {ids[i] : i \in 1..Len(ids)} \cap itemsById

\* A lookup that accepts every item id
UpdateOrderItemsMissing_None(itemsById, updates) == 0

\* OrderService._update_order_items: index of the first entry whose item_id is
\* not in the map (the 404), 0 when every entry is found
UpdateOrderItemsMissing(itemsById, updates) ==
    LET bad == {i \in 1..Len(updates) : updates[i].item_id \notin itemsById}
    IN  IF bad = {} THEN 0 ELSE Min(bad)

\* OrderService._update_order_items: the quantity an item holds after the
\* first n entries have been applied
UpdatedQuantity(item, updates, n) ==
    LET mine == {i \in 1..n : updates[i].item_id = item.id}
    IN  IF mine = {} THEN item.quantity
        ELSE updates[CHOOSE i \in mine : \A j \in mine : j <= i].quantity

\* A unit of work in which the quantity update of an item marked deleted
\* cancels its deletion
ApplyOrderChanges_UpdateWins(ords, o, marked, updates, n, changed, added) ==
    LET named == {updates[i].item_id : i \in 1..n}
        Kept(items) == SelectSeq(items, LAMBDA it : it.id \notin marked \ named)
        Set(items) == [i \in 1..Len(items) |->
                         IF items[i].id \in changed \cup (marked \cap named)
                         THEN [items[i] EXCEPT
                                 !.quantity = UpdatedQuantity(items[i], updates, n)]
                         ELSE items[i]]
    IN  [k \in DOMAIN ords |->
            [ords[k] EXCEPT !.items = IF k = o THEN Set(Kept(@)) \o added
                                     ELSE Set(Kept(@))]]

\* The order table once the session's statements are applied: DELETE and
\* UPDATE address order_item rows by primary key, the INSERTs add the new
\* items to order o
ApplyOrderChanges(ords, o, marked, updates, n, changed, added) ==
    LET Kept(items) == SelectSeq(items, LAMBDA it : it.id \notin marked)
        Set(items) == [i \in 1..Len(items) |->
                         IF items[i].id \in changed
                         THEN [items[i] EXCEPT
                                 !.quantity = UpdatedQuantity(items[i], updates, n)]
                         ELSE items[i]]
    IN  [k \in DOMAIN ords |->
            [ords[k] EXCEPT !.items = IF k = o THEN Set(Kept(@)) \o added
                                     ELSE Set(Kept(@))]]

\* A session that commits what it has flushed when it is closed
Rollback_Keep(committed, uncommitted) == uncommitted

\* get_async_db_session, async with: closing the session without a commit
\* rolls its transaction back
Rollback(committed, uncommitted) == committed

\* OrderService.update_payment_status run alone on the product table prods:
\* the decrements from item i on, each committed by update_product, up to the
\* first one that ProductUpdate rejects
RECURSIVE ReduceProductQuantities(_, _, _)
ReduceProductQuantities(prods, items, i) ==
    IF i > Len(items) THEN [products |-> prods, code |-> 200]
    ELSE LET q == ReducedQuantity(items[i], prods)
             P == items[i].product_id
         IN  IF ~ProductUpdateValid("quantity", q)
             THEN [products |-> prods, code |-> 500]
             ELSE ReduceProductQuantities(
                      [prods EXCEPT ![P] = TouchUpdatedAt([@ EXCEPT !.quantity = q])],
                      items, i + 1)

\* OrderService.update_payment_status run alone: the product table it leaves
\* and its status code
UpdatePaymentStatusAlone(prods, items) ==
    IF ValidateStockAvailability(items, prods) # 0
    THEN [products |-> prods, code |-> 400]
    ELSE ReduceProductQuantities(prods, items, 1)

\* A transaction end that keeps the row locks of the session
ReleaseLocks_Keep(lock, p) == lock

\* Locks a session gives up when its transaction ends
ReleaseLocks(lock, p) == [k \in DOMAIN lock |-> IF lock[k] = p THEN 0 ELSE lock[k]]

\* Handlers with a request in progress other than p
Others(p) == {q \in Procs \ {p} : pc[q] # "idle"}

\* ------------------------------------------------------------------- Init
Item(id, P, q) == [id |-> id, product_id |-> P, quantity |-> q, price |-> 1]

Order1Items ==
    {<<Item(1, 1, 3)>>}
    \cup {<<Item(1, 1, 3), Item(2, P, q)>> : P \in {1, 2}, q \in ItemQtys}

Order2Items == {<<Item(3, 1, 3)>>}

\* The state after two products and two unpaid orders have been created
InitStore(stock1, stock2, items1, items2) ==
    /\ \E s1 \in stock1, s2 \in stock2 :
          /\ products = <<NewProduct(s1, 1), NewProduct(s2, 1)>>
          /\ history = <<HistoryRecord(1, NewProduct(s1, 1), "created", 1),
                         HistoryRecord(2, NewProduct(s2, 1), "created", 1)>>
    /\ \E i1 \in items1, i2 \in items2 :
          orders = <<[user_id |-> 1, payment_status |-> "unpaid", items |-> i1],
                     [user_id |-> 2, payment_status |-> "unpaid", items |-> i2]>>
    /\ orderLock = [o \in 1..2 |-> 0]
    /\ productLock = [P \in 1..(2 + MaxCreate) |-> 0]
    /\ pc = [p \in Procs |-> "idle"]
    /\ req = [p \in Procs |-> NoReq]
    /\ loaded = [p \in Procs |-> NoLoad]
    /\ view = [p \in Procs |-> <<>>]
    /\ idx = [p \in Procs |-> 0]
    /\ upd = [p \in Procs |-> NoUpdate]
    /\ dirty = [p \in Procs |-> FALSE]
    /\ result = [p \in Procs |-> 0]
    /\ errProduct = [p \in Procs |-> 0]
    /\ started = 0
    /\ created = 0
    /\ initView = [p \in Procs |-> <<>>]
    /\ wrote = [p \in Procs |-> NoWrote]
    /\ interfered = [p \in Procs |-> FALSE]
    /\ seq = [order |-> 2, item |-> 3]

\* Every handler serves its user with a valid access token
InitWith(stock1, stock2, items1, items2) ==
    /\ InitStore(stock1, stock2, items1, items2)
    /\ auth = [revoked |-> {}, expired |-> {}, active |-> {UserOf(p) : p \in Procs},
               bearer |-> [p \in Procs |-> AccessTokenOf(p)]]

Init == InitWith(InitStock1, InitStock2, Order1Items, Order2Items)

\* ------------------------------------------------- request entry and exit
\* A handler starts serving request r; code = 0 when the payload is valid
BeginWithin(limit, p, r, nextpc, code) ==
    /\ pc[p] = "idle"
    /\ started < limit
    /\ started' = started + 1
    /\ pc' = [pc EXCEPT ![p] = nextpc]
    /\ req' = [req EXCEPT ![p] = r]
    /\ loaded' = [loaded EXCEPT ![p] = NoLoad]
    /\ view' = [view EXCEPT ![p] = <<>>]
    /\ idx' = [idx EXCEPT ![p] = 0]
    /\ upd' = [upd EXCEPT ![p] = NoUpdate]
    /\ dirty' = [dirty EXCEPT ![p] = FALSE]
    /\ result' = [result EXCEPT ![p] = code]
    /\ errProduct' = [errProduct EXCEPT ![p] = 0]
    /\ initView' = [initView EXCEPT ![p] = <<>>]
    /\ wrote' = [wrote EXCEPT ![p] = NoWrote]
    /\ interfered' = [interfered EXCEPT ![p] = FALSE]
    /\ UNCHANGED <<products, history, orders, orderLock, productLock, created,
                   seq, auth>>

Begin(p, r, nextpc, code) == BeginWithin(MaxCalls, p, r, nextpc, code)

\* The request raises: the session is closed, its open transaction is rolled
\* back and its row locks are released
FailWith(p, code, named, uncommitted) ==
    /\ pc' = [pc EXCEPT ![p] = "idle"]
    /\ result' = [result EXCEPT ![p] = code]
    /\ errProduct' = [errProduct EXCEPT ![p] = named]
    /\ orderLock' = ReleaseLocks(orderLock, p)
    /\ productLock' = ReleaseLocks(productLock, p)
    /\ dirty' = [dirty EXCEPT ![p] = FALSE]
    /\ view' = [view EXCEPT ![p] = <<>>]
    /\ idx' = [idx EXCEPT ![p] = 0]
    /\ upd' = [upd EXCEPT ![p] = NoUpdate]
    /\ orders' = Rollback(orders, uncommitted)
    /\ UNCHANGED <<products, history, req, loaded, started, auth, created, seq,
                   initView, wrote, interfered>>

Fail(p, code, named) == FailWith(p, code, named, orders)

\* --------------------------------------- PATCH /orders/{id}/payment-status
\* The payload is validated by OrderPaymentUpdate before the service is called
CallUpdatePaymentStatusWithin(limit, p, o, st) ==
    LET r == [NoReq EXCEPT !.op = "settle", !.order = o, !.status = st,
                           !.user = UserOf(p)]
    IN  IF OrderPaymentUpdateValid(st)
        THEN BeginWithin(limit, p, r, "s_lock", 0)
        ELSE BeginWithin(limit, p, r, "idle", 422)

CallUpdatePaymentStatus(p, o, st) ==
    CallUpdatePaymentStatusWithin(MaxCalls, p, o, st)

\* OrderService._get_order_with_lock: SELECT order FOR UPDATE, then the
\* selectinload of its items and of their products
GetOrderWithLock(p) ==
    /\ pc[p] = "s_lock"
    /\ LET o == req[p].order IN
       IF o \notin DOMAIN orders
       THEN Fail(p, 404, 0)
       ELSE /\ ForUpdateGranted(orderLock, o, p)
            /\ LET items == orders[o].items
                   v == [P \in {items[i].product_id : i \in 1..Len(items)}
                           |-> products[P]]
               IN  /\ loaded' = [loaded EXCEPT ![p] =
                          [items |-> items, status |-> orders[o].payment_status,
                           added |-> <<>>]]
                   /\ view' = [view EXCEPT ![p] = v]
                   /\ initView' = [initView EXCEPT ![p] = v]
            /\ orderLock' = [orderLock EXCEPT ![o] = p]
            /\ pc' = [pc EXCEPT ![p] = "s_validate"]
            /\ UNCHANGED <<products, history, orders, productLock, req, idx,
                           upd, dirty, result, errProduct, started, auth, created, seq,
                           wrote, interfered>>

\* OrderService._validate_stock_availability
ValidateStock(p) ==
    /\ pc[p] = "s_validate"
    /\ LET bad == ValidateStockAvailability(loaded[p].items, view[p]) IN
       IF bad # 0
       THEN Fail(p, 400, loaded[p].items[bad].product_id)
       ELSE /\ pc' = [pc EXCEPT ![p] =
                        IF Len(loaded[p].items) = 0 THEN "s_status" ELSE "s_reduce"]
            /\ idx' = [idx EXCEPT ![p] = 1]
            /\ UNCHANGED <<products, history, orders, orderLock, productLock,
                           req, loaded, view, upd, dirty, result, errProduct,
                           started, auth, created, seq, initView, wrote, interfered>>

\* ProductService.update_product, setattr .. flush .. refresh, as a change of
\* the session of p: an UPDATE of the changed column is emitted when the value
\* differs from the one held in the identity map; it waits for the product's
\* row lock and keeps it. refresh re-reads the row: the committed row plus the
\* session's own write
Flush(p, P, field, value) ==
    IF view[p][P][field] # value
    THEN /\ productLock[P] \in {0, p}
         /\ productLock' = [productLock EXCEPT ![P] = p]
         /\ dirty' = [dirty EXCEPT ![p] = TRUE]
         /\ view' = [view EXCEPT ![p][P] =
                        TouchUpdatedAt([products[P] EXCEPT ![field] = value])]
    ELSE /\ view' = [view EXCEPT ![p][P] = products[P]]
         /\ UNCHANGED <<productLock, dirty>>

\* One iteration of OrderService._reduce_product_quantities up to the refresh
\* in update_product: the new quantity is computed from the product held in
\* the identity map and validated by ProductUpdate; get_product finds the
\* product in the identity map and leaves its loaded attributes as they are
Reduce(p) ==
    /\ pc[p] = "s_reduce"
    /\ LET item == loaded[p].items[idx[p]]
           q == ReducedQuantity(item, view[p])
       IN  IF ~ProductUpdateValid("quantity", q)
           THEN Fail(p, 500, 0)
           ELSE /\ Flush(p, item.product_id, "quantity", q)
                /\ upd' = [upd EXCEPT ![p] = [product |-> item.product_id,
                                              field |-> "quantity", value |-> q,
                                              insert |-> FALSE]]
                /\ pc' = [pc EXCEPT ![p] = "up_history"]
                /\ UNCHANGED <<products, history, orders, orderLock, req,
                               loaded, idx, result, errProduct, started, auth,
                               created, seq, initView, wrote, interfered>>

\* PATCH /products/{id}: ProductService.update_product, setattr .. refresh
UpdateProductFlush(p) ==
    /\ pc[p] = "up_flush"
    /\ Flush(p, upd[p].product, upd[p].field, upd[p].value)
    /\ pc' = [pc EXCEPT ![p] = "up_history"]
    /\ UNCHANGED <<products, history, orders, orderLock, req, loaded, idx, upd,
                   result, errProduct, started, auth, created, seq, initView, wrote,
                   interfered>>

\* ProductService.update_product, _save_history: the SELECT of the most recent
\* history row sees the rows committed so far; the new record, if any, is
\* added to the session and inserted at commit
UpdateProductHistory(p) ==
    /\ pc[p] = "up_history"
    /\ LET P == upd[p].product IN
       upd' = [upd EXCEPT ![p].insert =
                  SaveHistoryWrites(history, P, view[p][P], "updated")]
    /\ pc' = [pc EXCEPT ![p] = "up_commit"]
    /\ UNCHANGED <<products, history, orders, orderLock, productLock, req,
                   loaded, view, idx, dirty, result, errProduct, started, auth,
                   created, seq, initView, wrote, interfered>>

\* ProductService.update_product, commit: the history row and the flushed
\* UPDATE are committed, every row lock of the session is released
UpdateProductCommit(p) ==
    /\ pc[p] = "up_commit"
    /\ LET P == upd[p].product
           rec == HistoryRecord(P, view[p][P], "updated", req[p].user)
           last == Len(loaded[p].items)
       IN  /\ history' = IF upd[p].insert THEN InsertHistory(history, rec)
                         ELSE history
           /\ products' = IF dirty[p] THEN [products EXCEPT ![P] = view[p][P]]
                          ELSE products
           /\ wrote' = [wrote EXCEPT
                 ![p].products = IF dirty[p]
                                 THEN Append(@, [product |-> P,
                                                 old |-> products[P].quantity,
                                                 new |-> view[p][P].quantity])
                                 ELSE @,
                 ![p].rows = IF upd[p].insert THEN Append(@, rec) ELSE @]
           /\ interfered' = [q \in Procs |->
                 IF q \in Others(p) /\ (dirty[p] \/ upd[p].insert)
                 THEN TRUE ELSE interfered[q]]
           /\ IF req[p].op = "settle"
              THEN /\ idx' = [idx EXCEPT ![p] = @ + 1]
                   /\ pc' = [pc EXCEPT ![p] =
                               IF idx[p] + 1 > last THEN "s_status" ELSE "s_reduce"]
                   /\ UNCHANGED <<result, view>>
              ELSE /\ pc' = [pc EXCEPT ![p] = "idle"]
                   /\ result' = [result EXCEPT ![p] = 200]
                   /\ view' = [view EXCEPT ![p] = <<>>]
                   /\ UNCHANGED idx
    /\ orderLock' = ReleaseLocks(orderLock, p)
    /\ productLock' = ReleaseLocks(productLock, p)
    /\ dirty' = [dirty EXCEPT ![p] = FALSE]
    /\ upd' = [upd EXCEPT ![p] = NoUpdate]
    /\ UNCHANGED <<orders, req, loaded, errProduct, started, auth, created, seq, initView>>

\* update_payment_status, order.payment_status = ... and commit: an UPDATE of
\* the order row is emitted when the value differs from the loaded one; it
\* waits for the order's row lock
SetPaymentStatus(p) ==
    /\ pc[p] = "s_status"
    /\ LET o == req[p].order
           changed == loaded[p].status # req[p].status
       IN  IF changed
           THEN /\ orderLock[o] \in {0, p}
                /\ orders' = [orders EXCEPT ![o].payment_status = req[p].status]
                /\ wrote' = [wrote EXCEPT ![p].status = req[p].status]
                /\ interfered' = [q \in Procs |->
                      IF q \in Others(p) THEN TRUE ELSE interfered[q]]
           ELSE UNCHANGED <<orders, wrote, interfered>>
    /\ orderLock' = ReleaseLocks(orderLock, p)
    /\ productLock' = ReleaseLocks(productLock, p)
    /\ pc' = [pc EXCEPT ![p] = "idle"]
    /\ result' = [result EXCEPT ![p] = 200]
    /\ view' = [view EXCEPT ![p] = <<>>]
    /\ idx' = [idx EXCEPT ![p] = 0]
    /\ UNCHANGED <<products, history, req, loaded, upd, dirty, errProduct,
                   started, auth, created, seq, initView>>

\* The request task is cancelled (client disconnect, timeout) while
\* update_payment_status is suspended at one of its awaits: CancelledError
\* leaves the handler, the session is closed, the transaction that is open is
\* rolled back and its row locks are released; 499 stands for the cancelled
\* request
Cancel(p) ==
    /\ req[p].op = "settle"
    /\ pc[p] \in {"s_lock", "s_validate", "s_reduce", "up_history", "up_commit",
                  "s_status"}
    /\ Fail(p, 499, 0)

\* ------------------------------------------------------------ /auth routes
\* POST /auth/jwt/logout with bearer token t: AuthBackendWithRefresh.logout
\* destroys the token of the authenticated user; 401 without one
Logout(t) ==
    /\ CurrentUser(AccessAudience, t, auth) # 0
    /\ auth' = DestroyToken(auth, t)
    /\ UNCHANGED <<products, history, orders, orderLock, productLock, pc, req,
                   loaded, view, idx, upd, dirty, result, errProduct, started,
                   created, initView, wrote, interfered, seq>>

\* POST /auth/jwt/logout_refresh with the refresh_token cookie t
LogoutRefresh(t) ==
    /\ CurrentUser(RefreshAudience, t, auth) # 0
    /\ auth' = DestroyToken(auth, t)
    /\ UNCHANGED <<products, history, orders, orderLock, productLock, pc, req,
                   loaded, view, idx, upd, dirty, result, errProduct, started,
                   created, initView, wrote, interfered, seq>>

\* The lifetime of token t (lifetime_seconds) ends
Expire(t) ==
    /\ t \in ExpiringTokens \ auth.expired
    /\ auth' = [auth EXCEPT !.expired = @ \cup {t}]
    /\ UNCHANGED <<products, history, orders, orderLock, productLock, pc, req,
                   loaded, view, idx, upd, dirty, result, errProduct, started,
                   created, initView, wrote, interfered, seq>>

\* The 401 of the router dependency: the route function is not called
Unauthorized(p, op) ==
    Begin(p, [NoReq EXCEPT !.op = op], "idle", 401)

\* A request to a route of order_router or product_router: the dependency
\* current_user(active=True) reads the bearer token before the route function
\* runs
Authenticated(p, op, call) ==
    LET u == CurrentUser(AccessAudience, auth.bearer[p], auth)
    IN  IF u = 0 THEN Unauthorized(p, op)
        ELSE u = UserOf(p) /\ call

\* ------------------------------------------------ PATCH /products/{id}
\* The payload is validated by ProductUpdate before the service is called
CallUpdateProductWithin(limit, p, P, field, value) ==
    LET r == [NoReq EXCEPT !.op = "update", !.product = P, !.field = field,
                           !.value = value, !.user = UserOf(p)]
    IN  IF ProductUpdateValid(field, value)
        THEN BeginWithin(limit, p, r, "u_get", 0)
        ELSE BeginWithin(limit, p, r, "idle", 422)

CallUpdateProduct(p, P, field, value) ==
    CallUpdateProductWithin(MaxCalls, p, P, field, value)

\* ProductService.update_product, get_product
UpdateProductGet(p) ==
    /\ pc[p] = "u_get"
    /\ LET P == req[p].product IN
       IF P \notin DOMAIN products
       THEN Fail(p, 404, 0)
       ELSE /\ view' = [view EXCEPT ![p] = (P :> products[P])]
            /\ initView' = [initView EXCEPT ![p] = (P :> products[P])]
            /\ upd' = [upd EXCEPT ![p] = [product |-> P, field |-> req[p].field,
                                          value |-> req[p].value,
                                          insert |-> FALSE]]
            /\ pc' = [pc EXCEPT ![p] = "up_flush"]
            /\ UNCHANGED <<products, history, orders, orderLock, productLock,
                           req, loaded, idx, dirty, result, errProduct, started, auth,
                           created, seq, wrote, interfered>>

\* ------------------------------------------------------- POST /products
\* The payload is validated by ProductCreate before the service is called
CallCreateProduct(p, cat, q, given) ==
    /\ created < MaxCreate
    /\ LET r == [NoReq EXCEPT !.op = "create", !.catalog = cat, !.value = q,
                              !.user = IF given THEN UserOf(p) ELSE NoUser]
       IN  IF ProductCreateValid(q)
           THEN Begin(p, r, "c_create", 0)
           ELSE Begin(p, r, "idle", 422)

\* ProductService.create_product
CreateProduct(p) ==
    /\ pc[p] = "c_create"
    /\ IF req[p].catalog \notin CatalogIds
       THEN Fail(p, 404, 0)
       ELSE LET P == Len(products) + 1
                row == NewProduct(req[p].value, 1)
                rec == HistoryRecord(P, row, "created", req[p].user)
            IN  /\ products' = Append(products, row)
                /\ history' = IF SaveHistoryWrites(history, P, row, "created")
                              THEN InsertHistory(history, rec) ELSE history
                /\ created' = created + 1
                /\ wrote' = [wrote EXCEPT ![p].rows = Append(@, rec)]
                /\ interfered' = [q \in Procs |->
                      IF q \in Others(p) THEN TRUE ELSE interfered[q]]
                /\ pc' = [pc EXCEPT ![p] = "idle"]
                /\ result' = [result EXCEPT ![p] = 201]
                /\ UNCHANGED <<orders, orderLock, productLock, req, loaded,
                               view, idx, upd, dirty, errProduct, started, auth,
                               initView, seq>>

\* ---------------------------------------- POST /orders and PATCH /orders/{id}
\* The order table as the session of p would leave it: the items it has marked
\* deleted, the first n quantity updates and the items it has added
Uncommitted(p, n) ==
    LET o == req[p].order
        marked == DeleteOrderItems(BuildItemsMap(loaded[p].items), req[p].del)
        changed == {loaded[p].items[i].id : i \in
                      {j \in 1..Len(loaded[p].items) :
                          /\ loaded[p].items[j].id \notin marked
                          /\ UpdatedQuantity(loaded[p].items[j], req[p].upds, n)
                                # loaded[p].items[j].quantity}}
    IN  ApplyOrderChanges(orders, o, marked, req[p].upds, n, changed,
                          loaded[p].added)

\* The items whose UPDATE the session of p emits at its flush
ChangedItems(p) ==
    LET marked == DeleteOrderItems(BuildItemsMap(loaded[p].items), req[p].del)
    IN  {loaded[p].items[i].id : i \in
           {j \in 1..Len(loaded[p].items) :
               /\ loaded[p].items[j].id \notin marked
               /\ UpdatedQuantity(loaded[p].items[j], req[p].upds, Len(req[p].upds))
                     # loaded[p].items[j].quantity}}

\* _get_product_or_404 and the OrderItem built from it: the product is read
\* from the table unless the session already holds it; the item's id is drawn
\* from the sequence
AddItem(p, nextpc, uncommitted) ==
    LET data == req[p].new[idx[p]]
        P == data.product_id
    IN  IF P \notin DOMAIN products
        THEN /\ FailWith(p, 404, P, uncommitted)
             /\ UNCHANGED <<seq>>
        ELSE LET v == IF P \in DOMAIN view[p] THEN view[p]
                      ELSE (P :> products[P]) @@ view[p]
                 item == [id |-> seq.item + 1, product_id |-> P,
                          quantity |-> data.quantity, price |-> ItemPrice(v[P])]
             IN  /\ view' = [view EXCEPT ![p] = v]
                 /\ loaded' = [loaded EXCEPT ![p].added = Append(@, item)]
                 /\ seq' = [seq EXCEPT !.item = @ + 1]
                 /\ idx' = [idx EXCEPT ![p] = @ + 1]
                 /\ pc' = [pc EXCEPT ![p] =
                             IF idx[p] + 1 > Len(req[p].new) THEN nextpc ELSE @]
                 /\ UNCHANGED <<products, history, orders, orderLock,
                                productLock, req, upd, dirty, result, errProduct,
                                started, auth, created, initView, wrote, interfered>>

\* POST /orders: the payload is validated by OrderCreate
CallCreateOrder(p, items) ==
    LET r == [NoReq EXCEPT !.op = "create_order", !.new = items,
                           !.user = UserOf(p)]
    IN  IF OrderCreateValid(items)
        THEN Begin(p, r, "co_record", 0)
        ELSE Begin(p, r, "idle", 422)

\* OrderService._create_order_record: the order is inserted by the flush, its
\* id is drawn from the sequence
CreateOrderRecord(p) ==
    /\ pc[p] = "co_record"
    /\ seq' = [seq EXCEPT !.order = @ + 1]
    /\ req' = [req EXCEPT ![p].order = seq.order + 1]
    /\ loaded' = [loaded EXCEPT ![p] = [NoLoad EXCEPT !.status = DefaultPaymentStatus]]
    /\ idx' = [idx EXCEPT ![p] = 1]
    /\ pc' = [pc EXCEPT ![p] = "co_items"]
    /\ UNCHANGED <<products, history, orders, orderLock, productLock, view, upd,
                   dirty, result, errProduct, started, auth, created, initView, wrote,
                   interfered>>

\* An order committed before its items are added
NewOrder_NoItems(p) ==
    [user_id |-> req[p].user, payment_status |-> loaded[p].status, items |-> <<>>]

\* The order row of the session of p, not committed yet
NewOrder(p) ==
    [user_id |-> req[p].user, payment_status |-> loaded[p].status,
     items |-> loaded[p].added]

\* One iteration of OrderService._add_items_to_order
CreateOrderItem(p) ==
    /\ pc[p] = "co_items"
    /\ AddItem(p, "co_commit", (req[p].order :> NewOrder(p)) @@ orders)

\* OrderService.create_order, commit
CreateOrderCommit(p) ==
    /\ pc[p] = "co_commit"
    /\ orders' = (req[p].order :> NewOrder(p)) @@ orders
    /\ interfered' = [q \in Procs |->
          IF q \in Others(p) THEN TRUE ELSE interfered[q]]
    /\ pc' = [pc EXCEPT ![p] = "idle"]
    /\ result' = [result EXCEPT ![p] = 201]
    /\ view' = [view EXCEPT ![p] = <<>>]
    /\ idx' = [idx EXCEPT ![p] = 0]
    /\ UNCHANGED <<products, history, orderLock, productLock, req, loaded, upd,
                   dirty, errProduct, started, auth, created, initView, wrote, seq>>

\* PATCH /orders/{id}: the payload is validated by OrderUpdate
CallUpdateOrder(p, o, del, upds, new) ==
    LET r == [NoReq EXCEPT !.op = "update_order", !.order = o, !.del = del,
                           !.upds = upds, !.new = new, !.user = UserOf(p)]
    IN  IF OrderUpdateValid(upds, new)
        THEN Begin(p, r, "o_get", 0)
        ELSE Begin(p, r, "idle", 422)

\* OrderService.update_order up to the first statement it sends after
\* get_order: the order and its items are loaded, _delete_order_items marks
\* items of the map, _update_order_items sets quantities and raises the 404
\* for the first entry that is not in the map
UpdateOrderGet(p) ==
    /\ pc[p] = "o_get"
    /\ LET o == req[p].order IN
       IF o \notin DOMAIN orders
       THEN /\ Fail(p, 404, o)
            /\ UNCHANGED seq
       ELSE LET items == orders[o].items
                bad == UpdateOrderItemsMissing(BuildItemsMap(items), req[p].upds)
                marked == DeleteOrderItems(BuildItemsMap(items), req[p].del)
                changed == {items[i].id : i \in
                              {j \in 1..Len(items) :
                                  /\ items[j].id \notin marked
                                  /\ UpdatedQuantity(items[j], req[p].upds, bad - 1)
                                        # items[j].quantity}}
            IN  IF bad # 0
                THEN /\ FailWith(p, 404, <<req[p].upds[bad].item_id, o>>,
                                 ApplyOrderChanges(orders, o, marked, req[p].upds,
                                                   bad - 1, changed, <<>>))
                     /\ UNCHANGED seq
                ELSE /\ loaded' = [loaded EXCEPT ![p] =
                           [items |-> items, status |-> orders[o].payment_status,
                            added |-> <<>>]]
                     /\ idx' = [idx EXCEPT ![p] = 1]
                     /\ pc' = [pc EXCEPT ![p] =
                                 IF Len(req[p].new) > 0 THEN "o_new" ELSE "o_commit"]
                     /\ UNCHANGED <<products, history, orders, orderLock,
                                    productLock, req, view, upd, dirty, result,
                                    errProduct, started, auth, created, initView,
                                    wrote, interfered, seq>>

\* One iteration of OrderService._add_new_items_to_order
AddNewItemToOrder(p) ==
    /\ pc[p] = "o_new"
    /\ AddItem(p, "o_commit", Uncommitted(p, Len(req[p].upds)))

\* OrderService.update_order, commit: the DELETEs, UPDATEs and INSERTs of the
\* session are applied; an UPDATE of an item that another transaction has
\* deleted matches no row and raises
UpdateOrderCommit(p) ==
    /\ pc[p] = "o_commit"
    /\ LET o == req[p].order
           present == BuildItemsMap(orders[o].items)
       IN  IF ~(ChangedItems(p) \subseteq present)
           THEN /\ FailWith(p, 500, 0, Uncommitted(p, Len(req[p].upds)))
                /\ UNCHANGED seq
           ELSE /\ orders' = Uncommitted(p, Len(req[p].upds))
                /\ interfered' = [q \in Procs |->
                      IF q \in Others(p) THEN TRUE ELSE interfered[q]]
                /\ pc' = [pc EXCEPT ![p] = "idle"]
                /\ result' = [result EXCEPT ![p] = 200]
                /\ view' = [view EXCEPT ![p] = <<>>]
                /\ idx' = [idx EXCEPT ![p] = 0]
                /\ UNCHANGED <<products, history, orderLock, productLock, req,
                               loaded, upd, dirty, errProduct, started, auth, created,
                               initView, wrote, seq>>

\* A select without its where clause: some order is always found
FindOrder_First(ords, o) == IF o \in DOMAIN ords THEN o ELSE 1

\* OrderService.get_order, session.scalar(select(Order).where(Order.id ==
\* order_id)): the id of the row found, 0 for None
FindOrder(ords, o) == IF o \in DOMAIN ords THEN o ELSE 0

\* GET /orders/{id}
CallGetOrder(p, o) ==
    Begin(p, [NoReq EXCEPT !.op = "get_order", !.order = o, !.user = UserOf(p)],
          "g_get", 0)

\* OrderService.get_order: the order and its items as committed, or the 404
GetOrder(p) ==
    /\ pc[p] = "g_get"
    /\ LET o == FindOrder(orders, req[p].order) IN
       IF o = 0
       THEN /\ Fail(p, 404, req[p].order)
            /\ UNCHANGED seq
       ELSE /\ loaded' = [loaded EXCEPT ![p] =
                  [items |-> orders[o].items, status |-> orders[o].payment_status,
                   added |-> <<>>]]
            /\ pc' = [pc EXCEPT ![p] = "idle"]
            /\ result' = [result EXCEPT ![p] = 200]
            /\ UNCHANGED <<products, history, orders, orderLock, productLock,
                           req, view, idx, upd, dirty, errProduct, started, auth,
                           created, seq, initView, wrote, interfered>>

\* ------------------------------------------------------------------- Next
Next ==
    \E p \in Procs :
        \/ \E in \in SettleInputs : CallUpdatePaymentStatus(p, in[1], in[2])
        \/ GetOrderWithLock(p)
        \/ ValidateStock(p)
        \/ Reduce(p)
        \/ UpdateProductFlush(p)
        \/ UpdateProductHistory(p)
        \/ UpdateProductCommit(p)
        \/ SetPaymentStatus(p)
        \/ \E in \in UpdateInputs : CallUpdateProduct(p, in[1], "quantity", in[2])
        \/ UpdateProductGet(p)
        \/ \E in \in CreateInputs : CallCreateProduct(p, in[1], in[2], in[3])
        \/ CreateProduct(p)

Spec == Init /\ [][Next]_vars

\* ------------------------------------------------------------ SpecHistory
\* Product updates and settlements only, over more requests: the behaviours
\* in which the history recorder runs in several sessions at once
NextHistory ==
    \E p \in Procs :
        \/ \E in \in HistUpdateInputs :
              CallUpdateProductWithin(HistCalls, p, in[1], "quantity", in[2])
        \/ UpdateProductGet(p)
        \/ UpdateProductFlush(p)
        \/ UpdateProductHistory(p)
        \/ UpdateProductCommit(p)
        \/ \E in \in HistSettleInputs :
              CallUpdatePaymentStatusWithin(HistCalls, p, in[1], in[2])
        \/ GetOrderWithLock(p)
        \/ ValidateStock(p)
        \/ Reduce(p)
        \/ SetPaymentStatus(p)

\* Order 1 is not settled in these behaviours: one of its initial shapes
InitHistory == Init /\ Len(orders[1].items) = 1

SpecHistory == InitHistory /\ [][NextHistory]_vars

\* ------------------------------------------------------------- SpecOrders
\* Order creation and order update, with product price changes and the
\* settlement of order 1
NextOrders ==
    \E p \in Procs :
        \/ \E in \in CreateOrderInputs : CallCreateOrder(p, in)
        \/ CreateOrderRecord(p)
        \/ CreateOrderItem(p)
        \/ CreateOrderCommit(p)
        \/ \E in \in UpdateOrderInputs :
              CallUpdateOrder(p, in.order, in.del, in.upds, in.new)
        \/ UpdateOrderGet(p)
        \/ AddNewItemToOrder(p)
        \/ UpdateOrderCommit(p)
        \/ \E in \in PriceInputs : CallUpdateProduct(p, in[1], "sell_price", in[2])
        \/ UpdateProductGet(p)
        \/ UpdateProductFlush(p)
        \/ UpdateProductHistory(p)
        \/ UpdateProductCommit(p)
        \/ \E in \in OrdersSettleInputs : CallUpdatePaymentStatus(p, in[1], in[2])
        \/ GetOrderWithLock(p)
        \/ ValidateStock(p)
        \/ Reduce(p)
        \/ SetPaymentStatus(p)
        \/ \E o \in GetOrderInputs : CallGetOrder(p, o)
        \/ GetOrder(p)

\* Order 1 holds items 1 and 2, order 2 holds item 3
InitOrders ==
    /\ Init
    /\ products[1].quantity = 5
    /\ orders[1].items = <<Item(1, 1, 3), Item(2, 2, 1)>>

SpecOrders == InitOrders /\ [][NextOrders]_vars

\* -------------------------------------------------------------- SpecItems
\* Order creation and updates of order 1 with valid and invalid quantities,
\* and the settlement of order 1
NextItems ==
    \E p \in Procs :
        \/ \E in \in ItemsCreateInputs : CallCreateOrder(p, in)
        \/ CreateOrderRecord(p)
        \/ CreateOrderItem(p)
        \/ CreateOrderCommit(p)
        \/ \E in \in ItemsUpdateInputs :
              CallUpdateOrder(p, in.order, in.del, in.upds, in.new)
        \/ UpdateOrderGet(p)
        \/ AddNewItemToOrder(p)
        \/ UpdateOrderCommit(p)
        \/ CallUpdatePaymentStatus(p, 1, "paid")
        \/ GetOrderWithLock(p)
        \/ ValidateStock(p)
        \/ Reduce(p)
        \/ UpdateProductHistory(p)
        \/ UpdateProductCommit(p)
        \/ SetPaymentStatus(p)

SpecItems == InitOrders /\ [][NextItems]_vars

\* ------------------------------------------------------------- SpecStatus
\* Repeated payment-status requests on order 1, whose only item takes 3 units
\* of product 1
NextStatus ==
    \E p \in Procs :
        \/ \E in \in StatusInputs : CallUpdatePaymentStatus(p, in[1], in[2])
        \/ GetOrderWithLock(p)
        \/ ValidateStock(p)
        \/ Reduce(p)
        \/ UpdateProductHistory(p)
        \/ UpdateProductCommit(p)
        \/ SetPaymentStatus(p)

InitStatus == InitWith(StatusStock1, InitStock2, {<<Item(1, 1, 3)>>}, Order2Items)

SpecStatus == InitStatus /\ [][NextStatus]_vars

\* ---------------------------------------------------------- SpecTwoOrders
\* Settlements of order 1 and of order 2, which share product 1 or share no
\* product
NextTwoOrders ==
    \E p \in Procs :
        \/ \E in \in TwoOrdersInputs : CallUpdatePaymentStatus(p, in[1], in[2])
        \/ GetOrderWithLock(p)
        \/ ValidateStock(p)
        \/ Reduce(p)
        \/ UpdateProductHistory(p)
        \/ UpdateProductCommit(p)
        \/ SetPaymentStatus(p)

InitTwoOrders == InitWith(InitStock1, InitStock2, TwoOrdersItems1, TwoOrdersItems2)

SpecTwoOrders == InitTwoOrders /\ [][NextTwoOrders]_vars

\* ------------------------------------------------------------- SpecCancel
\* Settlements of order 1 that may be cancelled at any await
NextCancel ==
    \E p \in Procs :
        \/ CallUpdatePaymentStatus(p, 1, "paid")
        \/ GetOrderWithLock(p)
        \/ ValidateStock(p)
        \/ Reduce(p)
        \/ UpdateProductHistory(p)
        \/ UpdateProductCommit(p)
        \/ SetPaymentStatus(p)
        \/ Cancel(p)

SpecCancel == Init /\ [][NextCancel]_vars

\* -------------------------------------------------------------- SpecLocks
\* Concurrent settlements of orders 1 and 2, whose items name products 1 and 2
\* in opposite order
SettleStep(p) ==
    \/ GetOrderWithLock(p)
    \/ ValidateStock(p)
    \/ Reduce(p)
    \/ UpdateProductHistory(p)
    \/ UpdateProductCommit(p)
    \/ SetPaymentStatus(p)

NextLocks ==
    \E p \in Procs :
        \/ \E in \in TwoOrdersInputs : CallUpdatePaymentStatus(p, in[1], in[2])
        \/ SettleStep(p)

InitLocks == InitWith(InitStock1, InitStock2, LocksItems1, LocksItems2)

\* Every handler that can take a step eventually takes one: the event loop
\* resumes a coroutine whose await has completed, and PostgreSQL grants a
\* row lock to a waiter once it is free
SpecLocks ==
    InitLocks /\ [][NextLocks]_vars /\ \A p \in Procs : WF_vars(SettleStep(p))

\* --------------------------------------------------------------- SpecAuth
\* Requests to the order and product routes with and without a valid token,
\* with logouts and the end of a token's lifetime in between
NextAuth ==
    \/ \E t \in Tokens : Logout(t)
    \/ \E t \in Tokens : LogoutRefresh(t)
    \/ \E t \in Tokens : Expire(t)
    \/ \E p \in Procs :
          \/ Authenticated(p, "create_order",
                           CallCreateOrder(p, <<ItemData(1, 2), ItemData(1, 1)>>))
          \/ CreateOrderRecord(p)
          \/ CreateOrderItem(p)
          \/ CreateOrderCommit(p)
          \/ Authenticated(p, "update_order",
                           CallUpdateOrder(p, 1, <<1>>, <<ItemUpdate(2, 5)>>, <<>>))
          \/ UpdateOrderGet(p)
          \/ UpdateOrderCommit(p)
          \/ Authenticated(p, "settle", CallUpdatePaymentStatus(p, 1, "paid"))
          \/ GetOrderWithLock(p)
          \/ ValidateStock(p)
          \/ Reduce(p)
          \/ SetPaymentStatus(p)
          \/ Authenticated(p, "create", CallCreateProduct(p, 1, 2, TRUE))
          \/ CreateProduct(p)
          \/ Authenticated(p, "update", CallUpdateProduct(p, 1, "quantity", 4))
          \/ UpdateProductGet(p)
          \/ UpdateProductFlush(p)
          \/ UpdateProductHistory(p)
          \/ UpdateProductCommit(p)

InitAuth ==
    /\ InitStore({5}, InitStock2, {<<Item(1, 1, 3), Item(2, 2, 1)>>}, Order2Items)
    /\ \E b \in [Procs -> Tokens] :
          /\ \A p \in Procs : b[p] \in BearerChoices(p)
          /\ auth = [revoked |-> {}, expired |-> {}, active |-> ActiveUsers,
                     bearer |-> b]

SpecAuth == InitAuth /\ [][NextAuth]_vars

\* ------------------------------------------------------------ type check
TypeOK ==
    /\ \A P \in DOMAIN products : products[P].quantity \in Int
    /\ auth.revoked \subseteq Tokens \ {NoToken}
    /\ auth.expired \subseteq ExpiringTokens
    /\ \A o \in DOMAIN orders : orders[o].payment_status \in PaymentStatus
    /\ \A p \in Procs : pc[p] \in {"idle", "s_lock", "s_validate", "s_reduce",
                                   "s_status", "up_flush", "up_history", "up_commit",
                                   "u_get", "co_record", "co_items", "co_commit",
                                   "o_get", "o_new", "o_commit", "g_get",
                                   "c_create"}
    /\ started \in 0..(MaxCalls + HistCalls)

\* ----------------------------------------------------- claim vocabulary
Settling(p) == req[p].op = "settle"

\* p has loaded its order and has not finished its request
InFlight(p) ==
    pc[p] \in {"s_validate", "s_reduce", "up_history", "up_commit", "s_status"}

Finished(p) == pc[p] = "idle" /\ result[p] # 0

\* p's request got as far as loading the order
Loaded(p) == Settling(p) /\ (InFlight(p) \/ (Finished(p) /\ result[p] # 404))

ItemsOf(p) == loaded[p].items

\* Items of p's order that ask for more than the stock read at load time
ShortItems(p) ==
    {i \in 1..Len(ItemsOf(p)) :
        ItemsOf(p)[i].quantity > initView[p][ItemsOf(p)[i].product_id].quantity}

DistinctProducts(items) ==
    \A i, j \in 1..Len(items) : i # j => items[i].product_id # items[j].product_id

\* Quantity of product P in the initial state (its created row, history[P])
InitialQuantity(P) == history[P].snapshot.quantity

\* ------------------------------------------------------------------- C1
\* C1: in every reachable state, after any interleaving of settlements,
\* product creations and product updates, every product's persisted quantity
\* is >= 0.
C1_QuantityNeverNegative ==
    \A P \in DOMAIN products : products[P].quantity >= 0

C1_Witness ==
    \E p \in Procs :
        /\ Settling(p) /\ Finished(p) /\ result[p] = 200
        /\ \E i \in 1..Len(wrote[p].products) :
              /\ wrote[p].products[i].new = 0
              /\ products[wrote[p].products[i].product].quantity = 0

\* ------------------------------------------------------------------- C2
\* C2: if some item of the order asks for more than its product's quantity
\* (the stock check fails), the request commits nothing - no product quantity,
\* no history row, no payment_status - and ends with the 400 error, also when
\* the items before the offending one would have passed.
C2_FailedCheckWritesNothing ==
    \A p \in Procs :
        (Loaded(p) /\ ShortItems(p) # {}) =>
            /\ wrote[p] = NoWrote
            /\ pc[p] \in {"s_validate", "idle"}
            /\ (pc[p] = "idle" => result[p] = 400)

C2_Witness ==
    \E p \in Procs :
        /\ Loaded(p) /\ Finished(p) /\ result[p] = 400
        /\ ShortItems(p) = {2}
        /\ wrote[p] = NoWrote
        /\ orders[req[p].order].payment_status = "unpaid"

\* ------------------------------------------------------------------- C3
\* C3: settlement is all-or-nothing at every step: a request that fails after
\* the stock check has passed has persisted none of its decrements, history
\* rows or status change.
C3_AllOrNothing ==
    \A p \in Procs :
        (Settling(p) /\ Finished(p) /\ result[p] # 200) => wrote[p] = NoWrote

\* ------------------------------------------------------------------- C4
\* C4: two concurrent settlements of the same order are serialized by the
\* order row lock: while one has loaded the order and has not yet finished its
\* whole settlement, the other has not read the order.
C4_SameOrderSerialized ==
    \A p, q \in Procs :
        (/\ p # q /\ Settling(p) /\ Settling(q)
         /\ req[p].order = req[q].order
         /\ InFlight(p)) => ~InFlight(q)

\* ------------------------------------------------------------------- C5
\* C5: two concurrent settlements of the same order, whose single item asks
\* for q of a product with stock s, q <= s < 2q (3 of 5): the quantity is never
\* negative, and once both have finished exactly one has succeeded, the other
\* has failed the stock check, and the final quantity is s - q (2).
C5_Scenario ==
    /\ started = 2
    /\ Cardinality({p \in Procs : Settling(p) /\ req[p].order = 1}) = 2
    /\ Len(orders[1].items) = 1
    /\ orders[1].items[1].quantity <= InitialQuantity(orders[1].items[1].product_id)
    /\ 2 * orders[1].items[1].quantity > InitialQuantity(orders[1].items[1].product_id)

Need(p, P) ==
    LET RECURSIVE Sum(_)
        Sum(i) == IF i = 0 THEN 0
                  ELSE Sum(i - 1) + (IF ItemsOf(p)[i].product_id = P
                                     THEN ItemsOf(p)[i].quantity ELSE 0)
    IN  Sum(Len(ItemsOf(p)))

Applied(p, P) == \E i \in 1..Len(wrote[p].products) : wrote[p].products[i].product = P

AppliedOnStale(p, P) ==
    \E i \in 1..Len(wrote[p].products) :
        /\ wrote[p].products[i].product = P
        /\ wrote[p].products[i].old # initView[p][P].quantity

C6_NoOverselling ==
    \A p, q \in Procs :
        (p # q /\ Loaded(p) /\ Loaded(q) /\ req[p].order # req[q].order) =>
            \A P \in (DOMAIN initView[p]) \cap (DOMAIN initView[q]) :
                ~ /\ initView[p][P].quantity = initView[q][P].quantity
                  /\ Applied(p, P) /\ Applied(q, P)
                  /\ AppliedOnStale(q, P)
                  /\ DistinctProducts(ItemsOf(p)) /\ DistinctProducts(ItemsOf(q))
                  /\ Need(p, P) + Need(q, P) > initView[p][P].quantity

\* ------------------------------------------------------------------- C7
\* C7: the order lock is held when the stock check runs, and it covers the
\* products: from the stock check until a product's decrement is written, the
\* persisted quantity of that product is the one the settlement has read.
C7_LockCoversProducts ==
    \A p \in Procs :
        (Settling(p) /\ pc[p] \in {"s_validate", "s_reduce"}) =>
            /\ (pc[p] = "s_validate" => orderLock[req[p].order] = p)
            /\ \A i \in 1..Len(ItemsOf(p)) :
                  i >= idx[p] =>
                      products[ItemsOf(p)[i].product_id].quantity
                          = view[p][ItemsOf(p)[i].product_id].quantity

\* ------------------------------------------------------------------- C8
\* C8: the mutations of one settlement become visible together: whenever a
\* decrement of a settlement is committed, all decrements of that settlement
\* and its payment_status are committed too.
C8_VisibleTogether ==
    \A p \in Procs :
        (Settling(p) /\ wrote[p].products # <<>>) =>
            /\ Len(wrote[p].products) = Len(ItemsOf(p))
            /\ Finished(p) /\ result[p] = 200

C10_FailFast ==
    \A p \in Procs :
        (Loaded(p) /\ Finished(p)) =>
            IF ShortItems(p) # {}
            THEN /\ result[p] = 400
                 /\ \A i \in ShortItems(p) :
                       (\A j \in ShortItems(p) : i <= j) =>
                           errProduct[p] = ItemsOf(p)[i].product_id
            ELSE result[p] # 400

C10_Witness ==
    \E p \in Procs :
        /\ Loaded(p) /\ Finished(p) /\ result[p] = 400
        /\ Len(ItemsOf(p)) = 2
        /\ ItemsOf(p)[1].quantity = initView[p][ItemsOf(p)[1].product_id].quantity
        /\ ItemsOf(p)[2].quantity > initView[p][ItemsOf(p)[2].product_id].quantity
        /\ errProduct[p] = ItemsOf(p)[2].product_id

\* ------------------------------------------------------------------ C11
\* C11: for every product, in every reachable state (also after concurrent
\* updates of the product from two transactions), its history rows in the
\* order they were written never contain two consecutive rows with action
\* updated and identical snapshots.
C11_NoConsecutiveDuplicates ==
    \A P \in DOMAIN products :
        LET mine == HistoryOf(history, P)
        IN  \A k \in 1..(Len(mine) - 1) :
                ~ /\ mine[k].action = "updated"
                  /\ mine[k + 1].action = "updated"
                  /\ mine[k].snapshot = mine[k + 1].snapshot

\* ------------------------------------------------------------------ C12
\* C12: when update_product commits, it has added a history row (exactly one,
\* action updated, attributed to the acting user, carrying the product's
\* snapshot after the update) if and only if the product's snapshot after the
\* update differs from the snapshot of the product's most recent history row;
\* otherwise the history is unchanged.
C12_RowIffSnapshotDiffers ==
    [][\A p \in Procs :
          (pc[p] = "up_commit" /\ pc'[p] # "up_commit") =>
              LET P == upd[p].product
                  rec == HistoryRecord(P, products'[P], "updated", req[p].user)
                  mine == HistoryOf(history, P)
                  differs == mine = <<>> \/ mine[Len(mine)].snapshot # rec.snapshot
              IN  IF differs
                  THEN history' = Append(history, rec)
                  ELSE history' = history]_vars

\* ------------------------------------------------------------------ C13
\* C13: a successful create_product adds exactly one product and exactly one
\* history row for it, with action created, the new product's id, the snapshot
\* of its fields and the acting user's id (null when none is given); a create
\* that fails because the catalog item is missing adds neither.
C13_CreateWritesOneRow ==
    [][\A p \in Procs :
          (pc[p] = "c_create" /\ pc'[p] = "idle") =>
              IF result'[p] = 201
              THEN LET P == Len(products) + 1 IN
                   /\ Len(products') = P
                   /\ products'[P].quantity = req[p].value
                   /\ \A Q \in DOMAIN products : products'[Q] = products[Q]
                   /\ history' = Append(history,
                         [product_id |-> P, user_id |-> req[p].user,
                          action |-> "created",
                          snapshot |-> CreateProductSnapshot(P, products'[P])])
                   /\ history'[Len(history')].snapshot.id = P
                   /\ history'[Len(history')].snapshot.quantity = req[p].value
                   /\ Len(HistoryOf(history', P)) = 1
                   /\ req[p].user \in {UserOf(p), NoUser}
              ELSE /\ result'[p] = 404
                   /\ req[p].catalog \notin CatalogIds
                   /\ products' = products
                   /\ history' = history]_vars

C13_Witness ==
    \E p, q \in Procs :
        /\ req[p].op = "create" /\ Finished(p) /\ result[p] = 201
        /\ req[p].user = NoUser
        /\ Len(products) = 3
        /\ history[Len(history)].product_id = 3
        /\ history[Len(history)].action = "created"
        /\ history[Len(history)].user_id = NoUser
        /\ req[q].op = "create" /\ Finished(q) /\ result[q] = 404

\* ------------------------------------------------------------------ C14
\* C14: product history is append-only: no step of any product creation,
\* product update or settlement modifies or removes a committed history row;
\* the history after a step extends the history before it.
C14_AppendOnly ==
    [][/\ Len(history') >= Len(history)
       /\ \A k \in 1..Len(history) : history'[k] = history[k]]_vars

C14_Witness ==
    /\ Len(history) = 4
    /\ history[3].action = "updated"
    /\ history[4].action = "created"

\* ------------------------------------------------------------------ C15
\* C15: a stock decrement and its history row are committed by the same
\* transaction: a commit of a settlement that lowers a product's persisted
\* quantity adds, in the same step, the updated row whose snapshot carries the
\* new quantity, and a commit of a settlement that adds a history row also
\* writes that quantity to the product.
C15_DecrementWithHistory ==
    [][\A p \in Procs :
          (Settling(p) /\ pc[p] = "up_commit" /\ pc'[p] # "up_commit") =>
              LET P == upd[p].product IN
              /\ products'[P].quantity < products[P].quantity =>
                    /\ Len(history') = Len(history) + 1
                    /\ history'[Len(history')].product_id = P
                    /\ history'[Len(history')].action = "updated"
                    /\ history'[Len(history')].snapshot.quantity
                          = products'[P].quantity
              /\ history' # history =>
                    /\ dirty[p]
                    /\ products'[P].quantity
                          = history'[Len(history')].snapshot.quantity]_vars

C15_Witness ==
    \E p \in Procs :
        /\ Settling(p) /\ Finished(p) /\ result[p] = 200
        /\ Len(wrote[p].products) = 2 /\ Len(wrote[p].rows) = 2
        /\ \A i \in 1..2 :
              /\ wrote[p].products[i].new < wrote[p].products[i].old
              /\ wrote[p].rows[i].snapshot.quantity = wrote[p].products[i].new
              /\ wrote[p].rows[i].product_id = wrote[p].products[i].product

\* ------------------------------------------------- order claim vocabulary
ItemIds(ords) ==
    UNION {BuildItemsMap(ords[o].items) : o \in DOMAIN ords}

Ids(seqOfIds) == {seqOfIds[i] : i \in 1..Len(seqOfIds)}

\* Handler p takes the step
Moves(p) == pc'[p] # pc[p] \/ idx'[p] # idx[p]

UpdatingOrder(p) ==
    req[p].op = "update_order" /\ pc[p] \in {"o_get", "o_new", "o_commit"}

CreatingOrder(p) ==
    req[p].op = "create_order" /\ pc[p] \in {"co_record", "co_items", "co_commit"}

\* ------------------------------------------------------------------ C16
\* C16: an order item takes its price from the sell_price its creating request
\* reads for the product (create_order or a new item of update_order), the
\* item is persisted with that price, and the price of a persisted item never
\* changes afterwards, whatever product price update, item quantity update or
\* settlement follows.
C16_PriceSnapshot ==
    [][/\ \A o \in DOMAIN orders \cap DOMAIN orders' :
             \A i \in 1..Len(orders[o].items), j \in 1..Len(orders'[o].items) :
                 orders[o].items[i].id = orders'[o].items[j].id =>
                     /\ orders'[o].items[j].price = orders[o].items[i].price
                     /\ orders'[o].items[j].product_id = orders[o].items[i].product_id
       /\ \A p \in Procs :
             (pc[p] \in {"co_items", "o_new"}
              /\ Len(loaded'[p].added) > Len(loaded[p].added)) =>
                 LET it == loaded'[p].added[Len(loaded'[p].added)] IN
                 /\ it.price = view'[p][it.product_id].sell_price
                 /\ it.product_id \notin DOMAIN view[p] =>
                       it.price = products[it.product_id].sell_price
       /\ \A o \in DOMAIN orders' :
             \A j \in 1..Len(orders'[o].items) :
                 orders'[o].items[j].id \notin ItemIds(orders) =>
                     \E p \in Procs :
                         /\ pc[p] \in {"co_commit", "o_commit"}
                         /\ req[p].order = o
                         /\ \E k \in 1..Len(loaded[p].added) :
                               loaded[p].added[k] = orders'[o].items[j]]_vars

C16_Witness ==
    /\ products[1].sell_price = 2
    /\ orders[1].items[1].price = 1
    /\ \E o \in DOMAIN orders \ {1, 2} :
          /\ Len(orders[o].items) = 2
          /\ orders[o].items[1].product_id = 1
          /\ orders[o].items[1].price = 1

\* ------------------------------------------------------------------ C17
\* C17: an update_order whose delete_item_ids name ids that are not items of
\* the order (unknown, or items of another order) succeeds; it changes no
\* other order, leaves the order's items that are not named untouched, and
\* when none of the named ids is an item of the order (as on a repeat of the
\* same delete) it leaves the orders exactly as they are.
C17_ForeignDeleteIgnored ==
    [][\A p \in Procs :
          (UpdatingOrder(p) /\ pc'[p] = "idle" /\ req[p].order \in DOMAIN orders
           /\ req[p].upds = <<>> /\ req[p].new = <<>>) =>
              LET o == req[p].order
                  dels == Ids(req[p].del)
              IN  /\ result'[p] = 200
                  /\ \A o2 \in DOMAIN orders \ {o} : orders'[o2] = orders[o2]
                  /\ SelectSeq(orders'[o].items, LAMBDA it : it.id \notin dels)
                        = SelectSeq(orders[o].items, LAMBDA it : it.id \notin dels)
                  /\ dels \cap BuildItemsMap(orders[o].items) = {} =>
                        orders' = orders]_vars

C17_Witness ==
    /\ started = 2
    /\ \A p \in Procs :
          /\ req[p].op = "update_order" /\ Finished(p) /\ result[p] = 200
          /\ req[p].del = <<3, 99>>
    /\ Len(orders[1].items) = 2
    /\ Len(orders[2].items) = 1 /\ orders[2].items[1].id = 3

\* ------------------------------------------------------------------ C18
\* C18: update_order is atomic: no step of the request before its commit
\* changes the persisted orders, and a request that fails (unknown item id in
\* the quantity phase, missing product in the new-item phase) leaves the
\* orders and their items exactly as they were, also when deletions and
\* quantity changes had been applied by the same call.
C18_UpdateOrderAtomic ==
    [][\A p \in Procs :
          (UpdatingOrder(p) /\ Moves(p)) =>
              \/ orders' = orders
              \/ pc[p] = "o_commit" /\ pc'[p] = "idle" /\ result'[p] = 200]_vars

C18_Witness ==
    \E p, q \in Procs :
        /\ req[p].op = "update_order" /\ Finished(p) /\ result[p] = 404
        /\ req[p].del = <<1>> /\ Len(req[p].upds) = 2
        /\ req[q].op = "update_order" /\ Finished(q) /\ result[q] = 404
        /\ req[q].del = <<1>> /\ Len(req[q].new) = 2
        /\ orders[1].items = <<Item(1, 1, 3), Item(2, 2, 1)>>

\* ------------------------------------------------------------------ C19
\* C19: update_order fails with the 404 that names the item id and the order
\* id whenever an update_items entry names an id that is not an item of the
\* addressed order, also when it is an item of another order; no step of
\* update_order modifies the items of another order.
C19_ItemNotFound ==
    [][\A p \in Procs :
          (UpdatingOrder(p) /\ Moves(p)) =>
              LET o == req[p].order IN
              /\ \A o2 \in DOMAIN orders \ {o} : orders'[o2] = orders[o2]
              /\ (pc[p] = "o_get" /\ o \in DOMAIN orders) =>
                    LET members == BuildItemsMap(orders[o].items)
                        bad == {i \in 1..Len(req[p].upds) :
                                  req[p].upds[i].item_id \notin members}
                    IN  IF bad # {}
                        THEN /\ pc'[p] = "idle"
                             /\ result'[p] = 404
                             /\ errProduct'[p] = <<req[p].upds[Min(bad)].item_id, o>>
                        ELSE pc'[p] # "idle"]_vars

C19_Witness ==
    \E p \in Procs :
        /\ req[p].op = "update_order" /\ Finished(p) /\ result[p] = 404
        /\ req[p].order = 1
        /\ errProduct[p] = <<3, 1>>
        /\ orders[2].items = <<Item(3, 1, 3)>>

\* ------------------------------------------------------------------ C20
\* C20: create_order persists the order and all its items as one unit: its
\* commit adds one order with the caller as owner, status unpaid and one item
\* per requested item, and changes no other order; if a requested product
\* does not exist the call fails with the 404 naming that product and neither
\* the order nor any of its items, also those listed before the missing
\* product, is persisted.
C20_CreateOrderUnit ==
    [][\A p \in Procs :
          (CreatingOrder(p) /\ Moves(p)) =>
              IF pc[p] = "co_commit"
              THEN LET o == req[p].order IN
                   /\ result'[p] = 201
                   /\ o \notin DOMAIN orders
                   /\ DOMAIN orders' = DOMAIN orders \cup {o}
                   /\ \A o2 \in DOMAIN orders : orders'[o2] = orders[o2]
                   /\ orders'[o].user_id = UserOf(p)
                   /\ orders'[o].payment_status = "unpaid"
                   /\ Len(orders'[o].items) = Len(req[p].new)
                   /\ \A i \in 1..Len(req[p].new) :
                         /\ orders'[o].items[i].product_id = req[p].new[i].product_id
                         /\ orders'[o].items[i].quantity = req[p].new[i].quantity
                         /\ req[p].new[i].product_id \in DOMAIN products
              ELSE /\ orders' = orders
                   /\ pc'[p] = "idle" =>
                         /\ result'[p] = 404
                         /\ errProduct'[p] = req[p].new[idx[p]].product_id
                         /\ errProduct'[p] \notin DOMAIN products
                   /\ (pc[p] = "co_items"
                       /\ req[p].new[idx[p]].product_id \notin DOMAIN products) =>
                         pc'[p] = "idle"]_vars

C20_Witness ==
    \E p, q \in Procs :
        /\ req[p].op = "create_order" /\ Finished(p) /\ result[p] = 404
        /\ errProduct[p] = 9 /\ Len(loaded[p].added) = 1
        /\ req[q].op = "create_order" /\ Finished(q) /\ result[q] = 201
        /\ req[q].order \in DOMAIN orders
        /\ Len(orders[req[q].order].items) = 2
        /\ req[p].order \notin DOMAIN orders

\* ------------------------------------------------------------------ C21
\* C21: the order a successful create_order returns, which is the order its
\* commit persists, has payment_status unpaid, the authenticated caller as
\* user_id and exactly one item per requested entry, in request order, with
\* that entry's product id and quantity; no step of create_order changes a
\* product row.
C21_CreatedOrderShape ==
    [][\A p \in Procs :
          (CreatingOrder(p) /\ Moves(p)) =>
              /\ products' = products
              /\ (pc'[p] = "idle" /\ result'[p] = 201) =>
                    LET r == OrderRead(orders', req[p].order) IN
                    /\ r.payment_status = "unpaid"
                    /\ r.user_id = UserOf(p)
                    /\ [i \in 1..Len(r.items) |->
                          ItemData(r.items[i].product_id, r.items[i].quantity)]
                          = req[p].new]_vars

C21_Witness ==
    \E p \in Procs :
        /\ req[p].op = "create_order" /\ Finished(p) /\ result[p] = 201
        /\ req[p].new = <<ItemData(1, 2), ItemData(1, 1)>>
        /\ OrderRead(orders, req[p].order).payment_status = "unpaid"
        /\ products[1].quantity = 5

\* ------------------------------------------------------------------ C22
\* C22: get_order, update_order and update_payment_status addressed to an order
\* id that does not exist end with 404 at their first step and change no
\* product, history row, order or item.
C22_OrderNotFound ==
    [][\A p \in Procs :
          (/\ req[p].op \in {"get_order", "update_order", "settle"}
           /\ pc[p] \in {"g_get", "o_get", "s_lock"}
           /\ Moves(p)
           /\ req[p].order \notin DOMAIN orders) =>
              /\ pc'[p] = "idle"
              /\ result'[p] = 404
              /\ products' = products
              /\ history' = history
              /\ orders' = orders]_vars

C22_Witness ==
    /\ started = 2
    /\ \E p, q \in Procs :
          /\ p # q
          /\ req[p].op = "settle" /\ req[p].order = 9
          /\ Finished(p) /\ result[p] = 404
          /\ req[q].op \in {"get_order", "update_order"} /\ req[q].order = 9
          /\ Finished(q) /\ result[q] = 404
    /\ history = <<HistoryRecord(1, NewProduct(5, 1), "created", 1),
                   HistoryRecord(2, NewProduct(2, 1), "created", 1)>>

\* ------------------------------------------------------------------ C25
\* C25: an order's payment_status moves only from unpaid to paid: no step
\* takes an order that is paid to another status.
C25_PaidStaysPaid ==
    [][\A o \in DOMAIN orders :
          orders[o].payment_status = "paid" =>
              orders'[o].payment_status = "paid"]_vars

\* ------------------------------------------------------------------ C26
\* C26: update_payment_status has no precondition on the order's current
\* status: a request on an order that is already paid passes to the stock
\* check, and when it succeeds without a concurrent writer it has reduced each
\* referenced product's quantity by the item's quantity once more.
C26_Resettlement ==
    /\ [](\A p \in Procs :
            (/\ Settling(p) /\ Finished(p) /\ result[p] = 200
             /\ loaded[p].status = "paid" /\ ~interfered[p]) =>
                /\ Len(wrote[p].products) = Len(ItemsOf(p))
                /\ \A i \in 1..Len(ItemsOf(p)) :
                      LET w == wrote[p].products[i] IN
                      /\ w.product = ItemsOf(p)[i].product_id
                      /\ w.new = w.old - ItemsOf(p)[i].quantity
                      /\ w.old = initView[p][w.product].quantity)
    /\ [][\A p \in Procs :
            (/\ Settling(p) /\ Moves(p)
             /\ pc[p] = "s_lock" /\ req[p].order \in DOMAIN orders
             /\ orders[req[p].order].payment_status = "paid") =>
                pc'[p] = "s_validate"]_vars

C26_Witness ==
    /\ started = 2
    /\ \E p \in Procs :
          /\ Settling(p) /\ Finished(p) /\ result[p] = 200
          /\ req[p].order = 1 /\ loaded[p].status = "paid"
          /\ ~interfered[p]
    /\ products[1].quantity = 1
    /\ Len(HistoryOf(history, 1)) = 3

\* ------------------------------------------------------------------ C29
\* C29: in every reachable state every order's payment_status is one of
\* unpaid, paid, canceled; a payment-status request that carries another
\* value ends with 422 before the service runs and changes no order and no
\* product.
C29_StatusInEnum ==
    /\ [](\A o \in DOMAIN orders : orders[o].payment_status \in PaymentStatus)
    /\ [][\A p \in Procs :
            (/\ pc[p] = "idle" /\ started' = started + 1
             /\ req'[p].op = "settle" /\ req'[p] # req[p]
             /\ req'[p].status \notin PaymentStatus) =>
                /\ pc'[p] = "idle"
                /\ result'[p] = 422
                /\ orders' = orders
                /\ products' = products]_vars

C29_Witness ==
    \E p \in Procs :
        /\ req[p].op = "settle" /\ req[p].status = "refunded"
        /\ Finished(p) /\ result[p] = 422
        /\ orders[1].payment_status = "paid"

\* ------------------------------------------------------------------ C23
\* C23: a settlement that is cancelled while it is in progress leaves the
\* persisted state as if the call had never happened: it has committed no
\* product quantity, no history row and no payment_status, and it holds no
\* row lock.
C23_CancelIsNoOp ==
    \A p \in Procs :
        (Settling(p) /\ Finished(p) /\ result[p] = 499) =>
            /\ wrote[p] = NoWrote
            /\ \A o \in DOMAIN orderLock : orderLock[o] # p
            /\ \A P \in DOMAIN productLock : productLock[P] # p

\* ------------------------------------------------------------------ C24
\* C24: settlements of two different orders with disjoint product sets never
\* wait for each other: a settlement waits for a row lock only while another
\* request on the same order or on an order with a common product is in
\* progress; and once one settlement of each order has run, whatever the
\* interleaving of their steps, the products, the history of each product, the
\* order statuses and the status codes are those of running the two
\* settlements one after the other, in either order.
ProductsOf(o) == {orders[o].items[i].product_id : i \in 1..Len(orders[o].items)}

DisjointOrders(o1, o2) == o1 # o2 /\ ProductsOf(o1) \cap ProductsOf(o2) = {}

\* The statement p is about to send has to wait for a row lock
Blocked(p) ==
    \/ /\ pc[p] = "s_lock" /\ req[p].order \in DOMAIN orders
       /\ ~ForUpdateGranted(orderLock, req[p].order, p)
    \/ /\ pc[p] = "s_reduce"
       /\ productLock[ItemsOf(p)[idx[p]].product_id] \notin {0, p}
    \/ /\ pc[p] = "s_status" /\ loaded[p].status # req[p].status
       /\ orderLock[req[p].order] \notin {0, p}

C24_DisjointSettlements ==
    /\ \A p \in Procs :
          (Settling(p) /\ Blocked(p)) =>
              \E q \in Others(p) : ~DisjointOrders(req[p].order, req[q].order)
    /\ \A p, q \in Procs :
          (/\ started = 2
           /\ Settling(p) /\ Finished(p) /\ req[p].order = 1
           /\ Settling(q) /\ Finished(q) /\ req[q].order = 2
           /\ DisjointOrders(1, 2)) =>
              LET start == <<NewProduct(InitialQuantity(1), 1),
                             NewProduct(InitialQuantity(2), 1)>>
                  first == UpdatePaymentStatusAlone(start, orders[1].items)
                  second == UpdatePaymentStatusAlone(first.products, orders[2].items)
                  other == UpdatePaymentStatusAlone(start, orders[2].items)
                  last == UpdatePaymentStatusAlone(other.products, orders[1].items)
              IN  /\ products = second.products
                  /\ products = last.products
                  /\ result[p] = first.code /\ result[p] = last.code
                  /\ result[q] = second.code /\ result[q] = other.code
                  /\ orders[1].payment_status
                        = IF result[p] = 200 THEN "paid" ELSE "unpaid"
                  /\ orders[2].payment_status
                        = IF result[q] = 200 THEN "paid" ELSE "unpaid"
                  /\ \A P \in DOMAIN products :
                        LET rows == HistoryOf(history, P) IN
                        /\ Len(rows) = products[P].updated_at + 1
                        /\ rows[Len(rows)].snapshot
                              = CreateProductSnapshot(P, products[P])

C24_Witness ==
    \E p, q \in Procs :
        /\ started = 2 /\ interfered[p] /\ interfered[q]
        /\ Settling(p) /\ Finished(p) /\ req[p].order = 1 /\ result[p] = 200
        /\ Settling(q) /\ Finished(q) /\ req[q].order = 2 /\ result[q] = 200
        /\ DisjointOrders(1, 2)
        /\ products[1].quantity = 0 /\ products[2].quantity = 1

\* ------------------------------------------------------------------ C30
\* C30: stock is conserved under concurrency: once every request of a
\* behaviour was a settlement and all of them reported success, each
\* product's quantity is its initial quantity minus the sum of the item
\* quantities that the settlements hold for that product.
RECURSIVE SumNeed(_, _)
SumNeed(S, P) ==
    IF S = {} THEN 0
    ELSE LET p == CHOOSE x \in S : TRUE IN Need(p, P) + SumNeed(S \ {p}, P)

C30_StockConserved ==
    LET served == {p \in Procs : req[p].op # "none"} IN
    (/\ Cardinality(served) = started
     /\ \A p \in served : Settling(p) /\ Finished(p) /\ result[p] = 200) =>
        \A P \in DOMAIN products :
            products[P].quantity = InitialQuantity(P) - SumNeed(served, P)

\* ------------------------------------------------------------ C27 and C28
\* The bearer token of handler p is an unexpired, unrevoked access token of an
\* active user
ValidBearer(p) ==
    LET t == auth.bearer[p]
    IN  /\ t # NoToken
        /\ TokenAudience(t) = AccessAudience
        /\ t \notin auth.revoked
        /\ t \notin auth.expired
        /\ TokenUser(t) \in auth.active

PersistedChange ==
    products' # products \/ orders' # orders \/ history' # history

\* C27: a request without a valid token of an active user never reaches the
\* order or product operations. A handler leaves "idle" (enters create_order,
\* update_order, update_payment_status, create_product or update_product) only
\* with a valid bearer; with an invalid one the request ends at once, with 401
\* and no user; and every change of the persisted products, history and orders
\* is made while a handler that passed authentication is inside its operation.
C27_Unauthenticated ==
    [][/\ \A p \in Procs :
            /\ (pc[p] = "idle" /\ pc'[p] # "idle") => ValidBearer(p)
            /\ (pc[p] = "idle" /\ ~ValidBearer(p) /\ req'[p] # req[p]) =>
                    /\ result'[p] = 401
                    /\ req'[p].user = NoUser
                    /\ ~PersistedChange
       /\ PersistedChange =>
            \E p \in Procs : pc[p] # "idle" /\ req[p].user # NoUser]_vars

\* A handler whose bearer token was revoked was answered 401 on a product
\* update, and the product it asked to change is as it was loaded
C27_Witness ==
    \E p \in Procs :
        /\ auth.bearer[p] \in auth.revoked
        /\ pc[p] = "idle"
        /\ req[p].op = "update"
        /\ result[p] = 401
        /\ products[1].quantity = 5

\* C28: once a token is revoked it stays revoked and read_token returns no
\* user for it, under the access and the refresh strategy, in every later
\* state; a handler presenting it starts no operation; and a logout adds
\* exactly one token to the revoked ones and changes what read_token returns
\* for no other token.
C28_RevokedForever ==
    [][/\ auth.revoked \subseteq auth'.revoked
       /\ \A t \in auth'.revoked :
            \A aud \in {AccessAudience, RefreshAudience} :
                ReadToken(aud, t, auth') = 0
       /\ \A p \in Procs :
            (auth.bearer[p] \in auth.revoked /\ pc[p] = "idle") =>
                pc'[p] = "idle"
       /\ auth'.revoked # auth.revoked =>
            \E t \in Tokens :
                /\ auth'.revoked = auth.revoked \cup {t}
                /\ \A x \in Tokens \ {t} :
                     \A aud \in {AccessAudience, RefreshAudience} :
                        ReadToken(aud, x, auth') = ReadToken(aud, x, auth)]_vars

\* One access token and the refresh token of user 1 are revoked, a handler
\* presenting the revoked access token was answered 401, and the other access
\* token of user 1 still authenticates
C28_Witness ==
    /\ <<AccessAudience, 1, 1>> \in auth.revoked
    /\ <<RefreshAudience, 1, 1>> \in auth.revoked
    /\ ReadToken(AccessAudience, <<AccessAudience, 1, 2>>, auth) = 1
    /\ \E p \in Procs :
          auth.bearer[p] = <<AccessAudience, 1, 1>> /\ result[p] = 401

\* -------------------------------------------------------------------- C31
\* C31: the decrement re-validates its result instead of trusting the earlier
\* stock check. When a settlement reaches the decrement of an item and the
\* persisted quantity of the product minus the item's quantity is negative,
\* the decrement is rejected: the request ends with an error in that step and
\* neither the product nor the history is written by it.
C31_DecrementRevalidated ==
    [][\A p \in Procs :
          (Settling(p) /\ pc[p] = "s_reduce" /\ pc'[p] # "s_reduce") =>
              LET item == loaded[p].items[idx[p]]
                  P == item.product_id
              IN  products[P].quantity - item.quantity < 0 =>
                      /\ pc'[p] = "idle"
                      /\ result'[p] >= 400
                      /\ products' = products
                      /\ history' = history]_vars

\* -------------------------------------------------------------------- C32
Unfinished == {p \in Procs : pc[p] # "idle"}

\* C32: concurrent settlements never deadlock. In no reachable state does
\* every unfinished update_payment_status call wait for a row lock held by
\* another, also when two orders name the same products in opposite item
\* order; and under fair scheduling every call that was started eventually
\* ends, with a commit (200) or a failure.
C32_NoDeadlock ==
    /\ [](Unfinished # {} => \E p \in Unfinished : ~Blocked(p))
    /\ \A p \in Procs : (pc[p] # "idle") ~> Finished(p)

\* The settlement of order 1 waits for the lock of product 2 (its second
\* item) while the settlement of order 2 holds it, having flushed its first
\* item, and will next need product 1
C32_Witness ==
    \E p, q \in Procs :
        /\ req[p].order = 1 /\ req[q].order = 2
        /\ pc[p] = "s_reduce" /\ idx[p] = 2 /\ Blocked(p)
        /\ pc[q] \in {"up_history", "up_commit"} /\ idx[q] = 1
        /\ productLock[2] = q

\* -------------------------------------------------------------------- C33
\* C33: update_payment_status checks and decrements stock on every successful
\* call whatever status is requested. A finished settlement of an order with
\* distinct products, with payment_status paid, unpaid or canceled alike, ended
\* with 400 and no write exactly when an item asked for more than the stock it
\* loaded, and otherwise with 200 after writing, for each item in turn, the
\* loaded quantity of the item's product minus the item's quantity.
C33_AnyStatusDecrements ==
    \A p \in Procs :
        (/\ Settling(p) /\ Finished(p) /\ Loaded(p)
         /\ req[p].status \in PaymentStatus
         /\ DistinctProducts(ItemsOf(p))) =>
            LET items == ItemsOf(p) IN
            IF ShortItems(p) # {}
            THEN result[p] = 400 /\ wrote[p] = NoWrote
            ELSE /\ result[p] = 200
                 /\ Len(wrote[p].products) = Len(items)
                 /\ \A i \in 1..Len(items) :
                      /\ wrote[p].products[i].product = items[i].product_id
                      /\ wrote[p].products[i].new =
                            initView[p][items[i].product_id].quantity
                                - items[i].quantity

\* One request with payment_status canceled took 3 units of product 1 and
\* ended 200, and a later one with unpaid was rejected with 400 for lack of
\* stock
C33_Witness ==
    \E p, q \in Procs :
        /\ Finished(p) /\ req[p].status = "canceled" /\ result[p] = 200
        /\ wrote[p].products = <<[product |-> 1, old |-> 5, new |-> 2]>>
        /\ Finished(q) /\ req[q].status = "unpaid" /\ result[q] = 400
        /\ errProduct[q] = 1
        /\ products[1].quantity = 2

\* -------------------------------------------------------------------- C34
\* Products named by the items the settlement of p loaded
Referenced(p) ==
    IF InFlight(p)
    THEN {ItemsOf(p)[i].product_id : i \in 1..Len(ItemsOf(p))}
    ELSE {}

\* C34: a settlement changes only the addressed order's payment_status, the
\* quantities (with updated_at) of the products named by that order's items
\* and the history of those products. In every step of a settlement the
\* items and user_id of its order, every other order, the set of orders and
\* of products, the sell_price of every product, every product not named by
\* the order and every existing history row stay as they are, and a history
\* row it adds belongs to a product the order names.
C34_SettlementFrame ==
    [][\A p \in Procs :
          (req'[p].op = "settle" /\ Moves(p)) =>
              /\ DOMAIN orders' = DOMAIN orders
              /\ \A o \in DOMAIN orders :
                   /\ orders'[o].items = orders[o].items
                   /\ orders'[o].user_id = orders[o].user_id
                   /\ o # req'[p].order => orders'[o] = orders[o]
              /\ DOMAIN products' = DOMAIN products
              /\ \A P \in DOMAIN products :
                   /\ products'[P].sell_price = products[P].sell_price
                   /\ P \notin Referenced(p) => products'[P] = products[P]
              /\ Len(history') >= Len(history)
              /\ SubSeq(history', 1, Len(history)) = history
              /\ \A k \in (Len(history) + 1)..Len(history') :
                   history'[k].product_id \in Referenced(p)]_vars

\* The settlement of order 1, which names product 1 only, ended 200: order 1
\* is paid with its items, product 1 has lost the items' quantity and has a
\* new history row, product 2 and order 2 are as they were created
C34_Witness ==
    \E p \in Procs :
        /\ Settling(p) /\ Finished(p) /\ result[p] = 200 /\ req[p].order = 1
        /\ orders[1].payment_status = "paid"
        /\ orders[1].items = ItemsOf(p)
        /\ \A i \in 1..Len(ItemsOf(p)) : ItemsOf(p)[i].product_id = 1
        /\ products[1].quantity < InitialQuantity(1)
        /\ Len(HistoryOf(history, 1)) > 1
        /\ products[2] = NewProduct(InitialQuantity(2), products[2].sell_price)
        /\ Len(HistoryOf(history, 2)) = 1
        /\ orders[2].payment_status = "unpaid"

\* -------------------------------------------------------------------- C35
\* C35: history reflects the real state. In every committed state, for every
\* product, the snapshot of its most recent history row carries the
\* product's persisted quantity and sell_price, also after concurrent updates
\* of the same product.
C35_HistoryMatchesProduct ==
    \A P \in DOMAIN products :
        LET mine == HistoryOf(history, P)
        IN  /\ mine # <<>>
            /\ mine[Len(mine)].snapshot.quantity = products[P].quantity
            /\ mine[Len(mine)].snapshot.sell_price = products[P].sell_price

\* -------------------------------------------------------------------- C36
\* C36: in every reachable state every persisted order item has quantity
\* >= 1: create_order and update_order (quantity updates and new items) never
\* persist an item with quantity 0 or less, a payload that carries one is
\* answered 422 before the service runs, and no step of a settlement changes
\* the items of an order.
C36_ItemQuantityPositive ==
    /\ [](\A o \in DOMAIN orders :
            \A i \in 1..Len(orders[o].items) : orders[o].items[i].quantity >= 1)
    /\ [][\A p \in Procs :
            /\ (pc[p] = "idle" /\ req'[p] # req[p]
                 /\ req'[p].op \in {"create_order", "update_order"}
                 /\ \E k \in 1..Len(req'[p].new) : req'[p].new[k].quantity < 1) =>
                    (pc'[p] = "idle" /\ result'[p] = 422)
            /\ (pc[p] = "idle" /\ req'[p] # req[p]
                 /\ req'[p].op = "update_order"
                 /\ \E k \in 1..Len(req'[p].upds) : req'[p].upds[k].quantity < 1) =>
                    (pc'[p] = "idle" /\ result'[p] = 422)
            /\ (Settling(p) /\ pc[p] # "idle" /\ Moves(p)) =>
                    \A o \in DOMAIN orders : orders'[o].items = orders[o].items]_vars

\* A POST /orders with an item of quantity 0 was answered 422 and created no
\* order, while a PATCH /orders/1 has set item 2 to quantity 4 and added an
\* item of quantity 1
C36_Witness ==
    \E p, q \in Procs :
        /\ req[p].op = "create_order" /\ req[p].new = <<ItemData(1, 0)>>
        /\ pc[p] = "idle" /\ result[p] = 422
        /\ DOMAIN orders = 1..2
        /\ req[q].op = "update_order" /\ pc[q] = "idle" /\ result[q] = 200
        /\ Len(orders[1].items) = 3
        /\ orders[1].items[2].quantity = 4
        /\ orders[1].items[3].quantity = 1

\* -------------------------------------------------------------------- C37
\* C37: update_order applies deletions, then quantity updates, then additions
\* against the item set read at the start of the call. An update_items entry
\* is looked up in that set only: an id that is also in delete_item_ids is
\* found (no 404), an id that is not in the set gives the 404 before any item
\* is added, also when it is the id an added item would get. At the commit
\* every item of the set named by delete_item_ids is absent from the order,
\* updated or not, and the added items are the last of the order, carry the
\* quantities of new_items and have ids that were not in the set.
C37_DeleteUpdateAdd ==
    [][\A p \in Procs :
          (UpdatingOrder(p) /\ Moves(p)) =>
              LET o == req[p].order IN
              /\ (pc[p] = "o_get" /\ o \in DOMAIN orders) =>
                    LET start == BuildItemsMap(orders[o].items) IN
                    IF \A i \in 1..Len(req[p].upds) :
                          req[p].upds[i].item_id \in start
                    THEN pc'[p] \in {"o_new", "o_commit"}
                    ELSE /\ pc'[p] = "idle" /\ result'[p] = 404
                         /\ seq' = seq
                         /\ orders' = orders
              /\ (pc[p] = "o_commit" /\ result'[p] = 200) =>
                    LET start == BuildItemsMap(loaded[p].items)
                        after == orders'[o].items
                        n == Len(req[p].new)
                        first == Len(after) - n
                    IN  /\ \A id \in Ids(req[p].del) \cap start :
                             id \notin BuildItemsMap(after)
                        /\ first >= 0
                        /\ \A k \in 1..n :
                             /\ after[first + k].id \notin start
                             /\ after[first + k].quantity = req[p].new[k].quantity
                             /\ after[first + k].product_id
                                   = req[p].new[k].product_id
                        /\ \A k \in 1..first :
                             /\ after[k].id \in start \/ after[k].id \in
                                   BuildItemsMap(orders[o].items)
                             /\ after[k].id \notin Ids(req[p].del)]_vars

\* A PATCH /orders/1 that deletes item 1 and sets its quantity to 4 ended 200
\* and item 1 is gone; a PATCH /orders/1 that adds an item and updates item 4
\* ended with the 404 naming item 4 of order 1, and no item 4 exists
C37_Witness ==
    \E p, q \in Procs :
        /\ req[p].op = "update_order" /\ Finished(p) /\ result[p] = 200
        /\ req[p].del = <<1>> /\ req[p].upds = <<ItemUpdate(1, 4)>>
        /\ 1 \notin ItemIds(orders)
        /\ req[q].op = "update_order" /\ Finished(q) /\ result[q] = 404
        /\ req[q].upds = <<ItemUpdate(4, 2)>> /\ Len(req[q].new) = 1
        /\ errProduct[q] = <<4, 1>>
        /\ 4 \notin ItemIds(orders)
        /\ seq.item = 3

====
